---- MODULE Spec2Model ----
(***************************************************************************)
(* Frame/atlas assembly and animation pipeline of pixo-banana-suite.       *)
(*                                                                         *)
(* Strings are modelled as sequences of one-character strings, so that     *)
(* the filename parsing and formatting of normalize_frame_numbers is       *)
(* computed character by character, as the code computes it.  Paths are    *)
(* relative to the working directory, already in pathlib's normal form     *)
(* (no "." or ".." component, no doubled or trailing separator).           *)
(*                                                                         *)
(* A dict is a sequence of entries in insertion order with distinct keys.  *)
(* The filesystem is a function from the paths that exist to files; a      *)
(* file is [id, w, h]: id tells contents apart, (w, h) is the size of the  *)
(* image it decodes to, w = 0 for a file that does not decode.             *)
(***************************************************************************)
EXTENDS Integers, Sequences, FiniteSets, TLC

VARIABLES
    pc,            \* position of the operation sequence under check
    by_pose,       \* PoseFrameSet given to normalize_frame_numbers
    start_index,   \* its start_index argument
    pad,           \* its pad argument
    disk,          \* the filesystem
    disk0,         \* the filesystem before apply_renames
    norm_map,      \* PoseFrameSet returned by normalize_frame_numbers
    rename_map,    \* RenamePlan returned by normalize_frame_numbers
    norm_map2,     \* PoseFrameSet returned by the second normalization
    rename_map2,   \* RenamePlan returned by the second normalization
    refused,       \* entries of the plan whose os.replace raised
    sheet_req,     \* arguments of create_sprite_sheet
    sheet_out,     \* what create_sprite_sheet returned and composited
    req,           \* the request of the handler that runs
    run,           \* the locals of the run
    resp,          \* the response: status 0 while the run is under way
    edit_calls,    \* how many times apply_edit was called
    made_dirs,     \* the directories the run created (mkdir)
    stages,        \* the stages the run entered, in order
    gif_req,       \* arguments of create_gif
    gif_out,       \* what create_gif did
    written,       \* the paths the run wrote, with the stage that wrote
    read_back,     \* the paths the run read after it wrote them
    jobs           \* the locals of each of two concurrent poses_pipeline runs

normVars == <<by_pose, start_index, pad, disk0,
              norm_map, rename_map, norm_map2, rename_map2, refused>>

sheetVars == <<sheet_req, sheet_out>>

pipeVars == <<req, run, resp, edit_calls, made_dirs, stages>>

gifVars == <<gif_req, gif_out>>

ioVars == <<written, read_back>>

jobVars == <<jobs>>

vars == <<pc, disk, normVars, sheetVars, pipeVars, gifVars, ioVars, jobVars>>

---------------------------------------------------------------------------
(* Characters *)

DigitChars == <<"0", "1", "2", "3", "4", "5", "6", "7", "8", "9">>

IsDigit(c) == \E d \in 1..10 : DigitChars[d] = c

DigitVal(c) == (CHOOSE d \in 1..10 : DigitChars[d] = c) - 1

Letters ==
    {"a", "b", "c", "d", "e", "f", "g", "h", "i", "j", "k", "l", "m",
     "n", "o", "p", "q", "r", "s", "t", "u", "v", "w", "x", "y", "z",
     "A", "B", "C", "D", "E", "F", "G", "H", "I", "J", "K", "L", "M",
     "N", "O", "P", "Q", "R", "S", "T", "U", "V", "W", "X", "Y", "Z"}

\* the character class [A-Za-z0-9] of num_re
IsAlnum(c) == IsDigit(c) \/ c \in Letters

\* s[a..] as a sequence
Tail_(s, a) == SubSeq(s, a, Len(s))

\* positions of character c in s
Positions(s, c) == {i \in 1..Len(s) : s[i] = c}

SetMax(S) == CHOOSE x \in S : \A y \in S : y <= x

SetMin(S) == CHOOSE x \in S : \A y \in S : x <= y

\* pose names
WALK == <<"w", "a", "l", "k">>

IDLE == <<"i", "d", "l", "e">>

ATTACK == <<"a", "t", "t", "a", "c", "k">>

---------------------------------------------------------------------------
(* pathlib and str helpers *)

\* s.replace("\\", "/")
px(s) == [i \in 1..Len(s) |-> IF s[i] = "\\" THEN "/" ELSE s[i]]

\* str(Path(p).parent): "." when p has no separator
PathParent(p) ==
    IF Positions(p, "/") = {} THEN <<".">>
    ELSE SubSeq(p, 1, SetMax(Positions(p, "/")) - 1)

\* Path(p).name
PathName(p) ==
    IF Positions(p, "/") = {} THEN p
    ELSE Tail_(p, SetMax(Positions(p, "/")) + 1)

\* position of the dot that starts Path(name).suffix, 0 when there is none:
\* the last dot, unless it is the first or the last character
SuffixDot(name) ==
    IF Positions(name, ".") = {} THEN 0
    ELSE LET i == SetMax(Positions(name, "."))
         IN IF 1 < i /\ i < Len(name) THEN i ELSE 0

\* Path(name).suffix
PathSuffix(name) ==
    IF SuffixDot(name) = 0 THEN <<>> ELSE Tail_(name, SuffixDot(name))

\* Path(name).stem
PathStem(name) ==
    IF SuffixDot(name) = 0 THEN name ELSE SubSeq(name, 1, SuffixDot(name) - 1)

\* (Path(parent) / name).as_posix()
JoinPath(parent, name) ==
    IF parent = <<".">> THEN name ELSE parent \o <<"/">> \o name

RECURSIVE DecDigits(_)
\* str(n) for n >= 0
DecDigits(n) ==
    IF n < 10 THEN <<DigitChars[n + 1]>>
    ELSE DecDigits(n \div 10) \o <<DigitChars[(n % 10) + 1]>>

\* f"{idx:0{pad}d}" for idx >= 0: zero-filled on the left to width pad
FormatNum(idx, width) ==
    LET ds == DecDigits(idx)
    IN [i \in 1..(IF width > Len(ds) THEN width - Len(ds) ELSE 0) |-> "0"] \o ds

---------------------------------------------------------------------------
(* num_re = ^(?P<prefix>.*?_)(?P<num>\d+)(?P<suffix>\.[A-Za-z0-9]+)$ *)

\* length of the run of digits that starts s
RECURSIVE DigitRun(_)
DigitRun(s) ==
    IF s = <<>> \/ ~IsDigit(Head(s)) THEN 0 ELSE 1 + DigitRun(Tail(s))

\* rest matches \d+\.[A-Za-z0-9]+$
NumTailMatches(rest) ==
    LET d == DigitRun(rest)
    IN /\ d >= 1
       /\ d + 2 <= Len(rest)
       /\ rest[d + 1] = "."
       /\ \A i \in (d + 2)..Len(rest) : IsAlnum(rest[i])

\* the ends of the prefixes with which num_re matches fname
NumReEnds(fname) ==
    {u \in Positions(fname, "_") : NumTailMatches(Tail_(fname, u + 1))}

\* num_re.match(fname) is not None
NumReMatches(fname) == NumReEnds(fname) # {}

\* m.group('prefix'): the prefix is non-greedy, the shortest one wins
NumRePrefix(fname) == SubSeq(fname, 1, SetMin(NumReEnds(fname)))

\* m.group('suffix')
NumReSuffix(fname) ==
    LET rest == Tail_(fname, SetMin(NumReEnds(fname)) + 1)
    IN Tail_(rest, DigitRun(rest) + 1)

---------------------------------------------------------------------------
(* dict *)

DictKeys(d) == {d[i][1] : i \in 1..Len(d)}

\* d[k] = v: an existing key keeps its place and takes the new value
DictPut(d, k, v) ==
    IF k \in DictKeys(d)
    THEN [i \in 1..Len(d) |-> IF d[i][1] = k THEN <<k, v>> ELSE d[i]]
    ELSE Append(d, <<k, v>>)

---------------------------------------------------------------------------
(* normalize_frame_numbers *)

\* the body of the loop over paths: the canonical path of p given index idx
NewPath(p, idx, width) ==
    LET p_norm == px(p)
        parent == PathParent(p_norm)
        fname  == PathName(p_norm)
        new_num == FormatNum(idx, width)
        new_name ==
            IF NumReMatches(fname)
            THEN NumRePrefix(fname) \o new_num \o NumReSuffix(fname)
            ELSE PathStem(fname) \o <<"_">> \o new_num \o
                 (IF PathSuffix(fname) = <<>>
                  THEN <<".", "p", "n", "g">> ELSE PathSuffix(fname))
    IN JoinPath(parent, new_name)

\* FrameIdx with idx incremented before it is used
FrameIdx_IncrementFirst(start, k) == start + k

\* idx of the k-th path (k = 1, 2, ...) of a pose: idx starts at start_index
\* for every pose and grows by one per path
FrameIdx(start, k) == start + (k - 1)

\* new_list of one pose
NewList(paths, start, width) ==
    [k \in 1..Len(paths) |-> NewPath(paths[k], FrameIdx(start, k), width)]

\* rename_map after the paths of one pose, from position k on, are processed
RECURSIVE RenamesOfList(_, _, _, _, _)
RenamesOfList(rm, paths, k, start, width) ==
    IF k > Len(paths) THEN rm
    ELSE LET p_norm == px(paths[k])
             new_path == NewPath(paths[k], FrameIdx(start, k), width)
         IN RenamesOfList(
                IF new_path # p_norm THEN DictPut(rm, p_norm, new_path) ELSE rm,
                paths, k + 1, start, width)

\* rename_map after the poses from position i on are processed
RECURSIVE RenamesOfPoses(_, _, _, _, _)
RenamesOfPoses(rm, bp, i, start, width) ==
    IF i > Len(bp) THEN rm
    ELSE RenamesOfPoses(RenamesOfList(rm, bp[i].paths, 1, start, width),
                        bp, i + 1, start, width)

\* normalize_frame_numbers(by_pose, start_index, pad)
normalize_frame_numbers(bp, start, width) ==
    [new_by_pose |->
        [i \in 1..Len(bp) |->
            [pose |-> bp[i].pose, paths |-> NewList(bp[i].paths, start, width)]],
     rename_map |-> RenamesOfPoses(<<>>, bp, 1, start, width)]

---------------------------------------------------------------------------
(* apply_renames *)

\* os.replace(old, new): new takes the file of old, whatever new held
OsReplace(fs, old, new) ==
    IF old = new THEN fs
    ELSE (new :> fs[old]) @@ [q \in (DOMAIN fs) \ {old} |-> fs[q]]

\* one iteration of the loop: the entry is skipped when old does not exist,
\* and left undone when os.replace raises (fails holds the entries for which
\* the operating system refuses)
ApplyOne(fs, old, new, raises) ==
    IF old \in DOMAIN fs /\ ~raises THEN OsReplace(fs, old, new) ELSE fs

\* ApplyFrom with the try around the loop: the first entry that is refused
\* ends the call
RECURSIVE ApplyFrom_StopAtFailure(_, _, _, _)
ApplyFrom_StopAtFailure(fs, rm, i, fails) ==
    IF i > Len(rm) \/ i \in fails THEN fs
    ELSE ApplyFrom_StopAtFailure(ApplyOne(fs, rm[i][1], rm[i][2], FALSE),
                                 rm, i + 1, fails)

RECURSIVE ApplyFrom(_, _, _, _)
ApplyFrom(fs, rm, i, fails) ==
    IF i > Len(rm) THEN fs
    ELSE ApplyFrom(ApplyOne(fs, rm[i][1], rm[i][2], i \in fails),
                   rm, i + 1, fails)

\* apply_renames(rename_map) on filesystem fs
apply_renames(fs, rm, fails) == ApplyFrom(fs, rm, 1, fails)

---------------------------------------------------------------------------
(* create_sprite_sheet *)

\* _load_images(paths) from position k on: the images of the paths that are
\* files and decode, in list order.  An image is its size (w, h); src and
\* pos record the path and the list position it was read from, which the
\* code does not keep: they stand for the pixels, which tell what was pasted
RECURSIVE LoadFrom_KeepUndecodable(_, _, _)
\* LoadFrom that keeps every file that exists, whether it decodes or not
LoadFrom_KeepUndecodable(fs, paths, k) ==
    IF k > Len(paths) THEN <<>>
    ELSE (IF paths[k] \in DOMAIN fs
          THEN <<[w |-> fs[paths[k]].w, h |-> fs[paths[k]].h,
                  src |-> paths[k], pos |-> k]>>
          ELSE <<>>)
         \o LoadFrom_KeepUndecodable(fs, paths, k + 1)

RECURSIVE LoadFrom(_, _, _)
LoadFrom(fs, paths, k) ==
    IF k > Len(paths) THEN <<>>
    ELSE (IF paths[k] \in DOMAIN fs /\ fs[paths[k]].w > 0
          THEN <<[w |-> fs[paths[k]].w, h |-> fs[paths[k]].h,
                  src |-> paths[k], pos |-> k]>>
          ELSE <<>>)
         \o LoadFrom(fs, paths, k + 1)

\* _load_images(paths)
load_images(fs, paths) == LoadFrom(fs, paths, 1)

HasFrames(e) == Len(e.paths) > 0

HasImages(e) == Len(e.imgs) > 0

\* poses = [k for k, v in frames_by_pose.items() if v]
SheetPoses(fbp) ==
    LET kept == SelectSeq(fbp, HasFrames)
    IN [i \in 1..Len(kept) |-> kept[i].pose]

\* rows and row_paths after the loop over poses: one entry per pose that has
\* a loaded image; of is the pose the row was built from
SheetRows(fs, fbp) ==
    LET kept == SelectSeq(fbp, HasFrames)
        loaded == [i \in 1..Len(kept) |->
                     [imgs |-> load_images(fs, kept[i].paths),
                      row_paths |-> kept[i].paths,
                      of |-> kept[i].pose]]
    IN SelectSeq(loaded, HasImages)

RECURSIVE Flatten(_)
Flatten(ss) == IF ss = <<>> THEN <<>> ELSE Head(ss) \o Flatten(Tail(ss))

AllImages(rows) == Flatten([r \in 1..Len(rows) |-> rows[r].imgs])

\* cw, ch: the explicit cell when fixed_cell and cell_w and cell_h, else the
\* largest width and the largest height of the loaded images
CellW(rows, fixed_cell, cell_w, cell_h) ==
    IF fixed_cell /\ cell_w # 0 /\ cell_h # 0
    THEN cell_w
    ELSE SetMax({AllImages(rows)[i].w : i \in 1..Len(AllImages(rows))})

CellH(rows, fixed_cell, cell_w, cell_h) ==
    IF fixed_cell /\ cell_w # 0 /\ cell_h # 0
    THEN cell_h
    ELSE SetMax({AllImages(rows)[i].h : i \in 1..Len(AllImages(rows))})

\* SheetColumns without the lower limit of one column
SheetColumns_Unclamped(sheet_cols) == sheet_cols

\* cols = max(int(sheet_cols) if sheet_cols else 1, 1); None is 0 here
SheetColumns(sheet_cols) == IF sheet_cols >= 1 THEN sheet_cols ELSE 1

\* H = len(rows) * ch
SheetHeight(rows, ch) == Len(rows) * ch

\* the atlas record of the image at row r, column c (both from 0)
AtlasRecord(rows, poses, r, c, cw, ch, fixed_cell) ==
    LET img == rows[r + 1].imgs[c + 1]
        x == c * cw
        y == r * ch
        ox == x + ((cw - img.w) \div 2)
        oy == y + ((ch - img.h) \div 2)
    IN [pose |-> poses[r + 1],
        index |-> c + 1,
        frame |-> [x |-> x, y |-> y, w |-> cw, h |-> ch],
        trimmed |-> fixed_cell,
        spriteSourceSize |->
            [x |-> IF fixed_cell THEN ox - x ELSE 0,
             y |-> IF fixed_cell THEN oy - y ELSE 0,
             w |-> img.w, h |-> img.h],
        sourceSize |-> [w |-> img.w, h |-> img.h],
        src |-> px(rows[r + 1].row_paths[c + 1])]

\* sheet.paste of the image at row r, column c: what was composited, where
Paste(rows, r, c, cw, ch, fixed_cell) ==
    LET img == rows[r + 1].imgs[c + 1]
        x == c * cw
        y == r * ch
    IN [src |-> img.src, pose |-> rows[r + 1].of, pos |-> img.pos,
        row |-> r, col |-> c,
        x |-> IF fixed_cell THEN x + ((cw - img.w) \div 2) ELSE x,
        y |-> IF fixed_cell THEN y + ((ch - img.h) \div 2) ELSE y,
        w |-> img.w, h |-> img.h]

EmptyAtlas ==
    [empty |-> TRUE,
     meta |-> [size |-> [w |-> 0, h |-> 0], cell |-> [w |-> 0, h |-> 0],
               fixed_cell |-> FALSE, columns |-> 0],
     frames |-> <<>>]

SheetFile(W, H) == [id |-> <<"sheet">>, w |-> W, h |-> H]

AtlasFile == [id |-> <<"atlas">>, w |-> 0, h |-> 0]

\* create_sprite_sheet on filesystem fs: the atlas returned, the pastes made
\* on the canvas and the filesystem afterwards.  out_atlas_path is <<>> for
\* None.  The two early returns write nothing
create_sprite_sheet(fs, fbp, out_sheet_path, sheet_cols, fixed_cell, cell_w, cell_h, out_atlas_path) ==
    LET poses == SheetPoses(fbp)
        rows == SheetRows(fs, fbp)
    IN IF poses = <<>> \/ rows = <<>>
       THEN [atlas |-> EmptyAtlas, pastes |-> <<>>, fs |-> fs, written |-> FALSE]
       ELSE
       LET cw == CellW(rows, fixed_cell, cell_w, cell_h)
           ch == CellH(rows, fixed_cell, cell_w, cell_h)
           cols == SheetColumns(sheet_cols)
           W == cols * cw
           H == SheetHeight(rows, ch)
           cells == Flatten([r \in 1..Len(rows) |->
                       [c \in 1..Len(rows[r].imgs) |-> <<r - 1, c - 1>>]])
           fs1 == (out_sheet_path :> SheetFile(W, H)) @@ fs
       IN [atlas |->
              [empty |-> FALSE,
               meta |-> [size |-> [w |-> W, h |-> H],
                         cell |-> [w |-> cw, h |-> ch],
                         fixed_cell |-> fixed_cell,
                         columns |-> cols],
               frames |-> [i \in 1..Len(cells) |->
                   AtlasRecord(rows, poses, cells[i][1], cells[i][2],
                               cw, ch, fixed_cell)]],
           pastes |-> [i \in 1..Len(cells) |->
                   Paste(rows, cells[i][1], cells[i][2], cw, ch, fixed_cell)],
           fs |-> IF out_atlas_path # <<>>
                  THEN (out_atlas_path :> AtlasFile) @@ fs1 ELSE fs1,
           written |-> TRUE]

NoSheetReq ==
    [sheet_cols |-> 0, fixed_cell |-> FALSE, cell_w |-> 0, cell_h |-> 0]

NoSheetOut == [atlas |-> EmptyAtlas, pastes |-> <<>>, written |-> FALSE]

---------------------------------------------------------------------------
(* create_gif *)

GifFile == [id |-> <<"gif">>, w |-> 0, h |-> 0]

\* create_gif that tests the frame list in place of the loaded images
create_gif_WritesForAnyList(fs, frames, out_gif_path) ==
    IF frames = <<>> THEN fs
    ELSE (out_gif_path :> GifFile) @@ fs

\* create_gif(frames, out_gif_path): nothing is written when no frame loads
create_gif(fs, frames, out_gif_path) ==
    IF load_images(fs, frames) = <<>> THEN fs
    ELSE (out_gif_path :> GifFile) @@ fs

\* the directories create_gif makes: Path(out_gif_path).parent, after the
\* early return
GifDirs(fs, frames, out_gif_path) ==
    IF load_images(fs, frames) = <<>> THEN {}
    ELSE {PathParent(out_gif_path)}

---------------------------------------------------------------------------
(* poses_pipeline: the computations of its stages *)

\* frames written for a pose spec that gives no count
DefaultFrames == 4

\* req.sheet_cols or 3
DefaultSheetCols == 3

ASSETS_OUT ==
    <<"a", "s", "s", "e", "t", "s", "/", "o", "u", "t", "p", "u", "t", "s">>

PNG == <<".", "p", "n", "g">>

StartsWith(s, pre) == Len(s) >= Len(pre) /\ SubSeq(s, 1, Len(pre)) = pre

IsAbsolute(p) == Len(p) > 0 /\ p[1] = "/"

\* a PoseSpec is [name, given, frames]: given is FALSE for frames = None
DefaultPoses == <<[name |-> IDLE, given |-> FALSE, frames |-> 0]>>

\* if not req.poses: req.poses = [PoseSpec(name="idle")]
EffectivePoses(poses) == IF poses = <<>> THEN DefaultPoses ELSE poses

\* InvalidFrames that lets a frame count of 0 pass
InvalidFrames_NegativeOnly(poses) ==
    \E i \in 1..Len(poses) : poses[i].given /\ poses[i].frames < 0

\* any(spec.frames is not None and int(spec.frames) < 1 for spec in req.poses)
InvalidFrames(poses) ==
    \E i \in 1..Len(poses) : poses[i].given /\ poses[i].frames < 1

\* the two validations, in the order of the code; "ok" when both pass
ValidateOutcome(fs, image_path, poses) ==
    IF InvalidFrames(EffectivePoses(poses)) THEN "bad_frames"
    ELSE IF px(image_path) \notin DOMAIN fs THEN "no_image"
    ELSE "ok"

\* req.out_dir or "assets/outputs"; <<>> is None
OutDir(out_dir) == IF out_dir = <<>> THEN ASSETS_OUT ELSE px(out_dir)

\* req.basename or src.stem
BaseName(basename, src) ==
    IF basename = <<>> THEN PathStem(PathName(src)) ELSE basename

\* apply_edit writes the edited image beside the outputs and returns its path
EditedPath(src) ==
    JoinPath(ASSETS_OUT, <<"e", "d", "i", "t", "e", "d", "_">> \o
                         PathStem(PathName(src)) \o PNG)

\* apply_edit(image_path, prompt, ...) that returns: the edited image is
\* written, derived from the source image
apply_edit(fs, src) ==
    [fs |-> (EditedPath(src) :>
                [id |-> <<"edited">> \o fs[src].id,
                 w |-> fs[src].w, h |-> fs[src].h]) @@ fs,
     res |-> [used_model |-> "gemini", edited_path |-> EditedPath(src),
              reason |-> ""]]

\* the edit stage: whether apply_edit is called
EditRuns(use_nano, instruction_used) == use_nano \/ instruction_used # <<>>

\* EditAttempts with a second call after a call that raised
EditAttempts_RetryOnRaise(runs, outcome) ==
    IF ~runs THEN 0 ELSE IF outcome = "raises" THEN 2 ELSE 1

\* how many times the edit stage calls apply_edit: once inside the try when
\* the edit is asked for, whatever the call does; the handler has no loop
\* around it
EditAttempts(runs, outcome) == IF runs THEN 1 ELSE 0

\* edit_info and src_image after the edit stage; outcome is what apply_edit
\* did: "ok" or "raises"
EditStage(fs, src, runs, outcome) ==
    IF ~runs
    THEN [fs |-> fs, src_image |-> src,
          edit_info |-> [used_model |-> "none", edited_path |-> src,
                         reason |-> ""]]
    ELSE IF outcome = "raises"
    THEN [fs |-> fs, src_image |-> src,
          edit_info |-> [used_model |-> "error", edited_path |-> src,
                         reason |-> "Exception"]]
    ELSE [fs |-> apply_edit(fs, src).fs,
          src_image |-> apply_edit(fs, src).res.edited_path,
          edit_info |-> apply_edit(fs, src).res]

\* n = int(spec.frames) if (spec.frames and spec.frames > 0) else 4
FramesFor(spec) ==
    IF spec.given /\ spec.frames > 0 THEN spec.frames ELSE DefaultFrames

\* (out_dir / f"{base}_{spec.name}_{i:02d}.png").as_posix()
FramePath(out_dir, base, name, i) ==
    JoinPath(out_dir, base \o <<"_">> \o name \o <<"_">> \o FormatNum(i, 2) \o PNG)

\* frames_for_pose of one spec
FramesOfSpec(out_dir, base, spec) ==
    [i \in 1..FramesFor(spec) |-> FramePath(out_dir, base, spec.name, i)]

\* pose_frame_map after the specs from position i on: a dict, so a pose
\* named twice keeps its first place and its last list
RECURSIVE PoseFrameMap(_, _, _, _, _)
PoseFrameMap(pfm, poses, i, out_dir, base) ==
    IF i > Len(poses) THEN pfm
    ELSE PoseFrameMap(DictPut(pfm, poses[i].name,
                              FramesOfSpec(out_dir, base, poses[i])),
                      poses, i + 1, out_dir, base)

\* all_frames_abs
AllFramesAbs(poses, out_dir, base) ==
    Flatten([i \in 1..Len(poses) |-> FramesOfSpec(out_dir, base, poses[i])])

\* im_src.save(fpath) for every frame path: each holds a copy of im_src
SaveFrames(fs, src_image, paths) ==
    [q \in {paths[i] : i \in 1..Len(paths)} |->
        [id |-> fs[src_image].id, w |-> fs[src_image].w, h |-> fs[src_image].h]]
    @@ fs

\* a dict of pose -> list as the sequence of [pose, paths] the anim_utils
\* functions take
AsByPose(pfm) == [i \in 1..Len(pfm) |-> [pose |-> pfm[i][1], paths |-> pfm[i][2]]]

\* use_fixed = bool(req.fixed_cell and req.cell_w and req.cell_h)
UseFixed(fixed_cell, cell_w, cell_h) == fixed_cell /\ cell_w # 0 /\ cell_h # 0

\* SheetPathOf that names the sheet like the first frame of pose idle
SheetPathOf_OverFirstFrame(out_dir, base) == FramePath(out_dir, base, IDLE, 1)

\* (out_dir / f"{base}_sheet.png").as_posix()
SheetPathOf(out_dir, base) ==
    JoinPath(out_dir, base \o <<"_", "s", "h", "e", "e", "t">> \o PNG)

AtlasPathOf(out_dir, base) ==
    JoinPath(out_dir, base \o <<"_", "s", "h", "e", "e", "t", ".", "j", "s", "o", "n">>)

GifPathOf(out_dir, base) == JoinPath(out_dir, base \o <<".", "g", "i", "f">>)

\* positions of the poses whose list is not empty
WithFrames(bp) == {i \in 1..Len(bp) : Len(bp[i].paths) > 0}

\* PipeGifPose that leaves the caller's override out
PipeGifPose_IgnoreOverride(pose_for_gif, bp) ==
    IF {i \in 1..Len(bp) : Len(bp[i].paths) > 0} # {}
    THEN bp[CHOOSE i \in 1..Len(bp) :
               /\ Len(bp[i].paths) > 0
               /\ \A j \in 1..(i - 1) : Len(bp[j].paths) = 0].pose
    ELSE bp[1].pose

\* (req.pose_for_gif or next((k for k, v in map.items() if v), None))
\*     or next(iter(map.keys())); <<>> is None
PipeGifPose(pose_for_gif, bp) ==
    IF pose_for_gif # <<>> THEN pose_for_gif
    ELSE IF WithFrames(bp) # {} THEN bp[SetMin(WithFrames(bp))].pose
    ELSE bp[1].pose

\* pose_frame_map.get(pose): the list of the pose, <<>> when it is no key
FramesOfPose(bp, pose) ==
    IF \E i \in 1..Len(bp) : bp[i].pose = pose
    THEN bp[CHOOSE i \in 1..Len(bp) : bp[i].pose = pose].paths
    ELSE <<>>

\* rel(p) = str(p.relative_to(Path.cwd())) raises for a path outside the
\* working directory
RelRaises(p) == IsAbsolute(p)

\* to_url(relpath) raises unless relpath is under assets/outputs
UrlRaises(p) == ~StartsWith(p, ASSETS_OUT \o <<"/">>)

\* the respond stage raises when rel or to_url raises for an artifact path
RespondRaises(paths) == \E q \in paths : RelRaises(q) \/ UrlRaises(q)

\* the paths _load_images opens: every path of the list that is a file
LoadReads(fs, paths) ==
    {paths[k] : k \in {j \in 1..Len(paths) : paths[j] \in DOMAIN fs}}

\* the paths create_sprite_sheet opens: those of every pose's list
SheetReads(fs, fbp) ==
    UNION {LoadReads(fs, fbp[i].paths) : i \in 1..Len(fbp)}

\* the record of paths written, after the run wrote the given paths: each
\* path is kept with the kind of file last written there
WritesOf(wr, kind, paths) == [q \in paths |-> kind] @@ wr

\* the paths, among those a stage opens, that the run wrote before
ReadBack(wr, paths) ==
    {[path |-> q, kind |-> wr[q]] : q \in paths \cap DOMAIN wr}

NoEditInfo == [used_model |-> "none", edited_path |-> <<>>, reason |-> ""]

NoRun ==
    [src |-> <<>>, out_dir |-> <<>>, base |-> <<>>, poses |-> <<>>,
     src_image |-> <<>>, edit_info |-> NoEditInfo, edit_raised |-> FALSE,
     all_frames |-> <<>>, gif_pose |-> <<>>]

NoResp ==
    [status |-> 0, frames |-> <<>>, by_pose |-> <<>>, sprite_sheet |-> <<>>,
     gif |-> <<>>, atlas_path |-> <<>>, atlas |-> EmptyAtlas,
     gif_pose |-> <<>>, edit_info |-> NoEditInfo]

\* no handler runs
NoPipe ==
    /\ req = [handler |-> "none"]
    /\ run = NoRun
    /\ resp = NoResp
    /\ edit_calls = 0
    /\ made_dirs = {}
    /\ stages = <<>>

NoGifReq == [frames |-> <<>>, out_gif_path |-> <<>>]

NoGifOut == [returned |-> FALSE, made_dirs |-> {}]

\* create_gif is not called
NoGif ==
    /\ gif_req = NoGifReq
    /\ gif_out = NoGifOut

\* nothing written, nothing read back
NoIo ==
    /\ written = <<>>
    /\ read_back = {}

\* no concurrent runs
NoJobs == jobs = <<>>

---------------------------------------------------------------------------
(* build_spritesheet_grouped: the padded builder without an atlas *)

\* _load_rgba(p) returns: Image.open(p) raises for a path that names no
\* file or a file that is no image
LoadsRgba(fs, p) == p \in DOMAIN fs /\ fs[p].w > 0

\* _autotrim(im): im cropped to the bounding box of its non-transparent
\* pixels; an image with no such pixel (bbox None, 0 here) is returned as is
autotrim(file) ==
    IF file.bbox.w > 0 THEN [w |-> file.bbox.w, h |-> file.bbox.h]
    ELSE [w |-> file.w, h |-> file.h]

\* im = _load_rgba(f); if autotrim: im = _autotrim(im)
GroupedImage(fs, p, do_autotrim) ==
    IF do_autotrim THEN autotrim(fs[p]) ELSE [w |-> fs[p].w, h |-> fs[p].h]

\* infer_frame_size(frames, autotrim): the size of the first frame
infer_frame_size(fs, frames, do_autotrim) == GroupedImage(fs, frames[1], do_autotrim)

\* GroupedExtent that leaves the padding between the cells out
GroupedExtent_NoPadding(n, cell, padding) == n * cell

\* sheet_w and sheet_h: n * cell + (n - 1) * padding if n else cell
GroupedExtent(n, cell, padding) ==
    IF n # 0 THEN n * cell + (n - 1) * padding ELSE cell

\* the cell of the frame at row r, column c (both from 0): the image is
\* reduced to the cell when it is larger, padded to the cell and pasted at
\* (c * (cell_w + padding), r * (cell_h + padding))
GroupedCell(fs, fbp, r, c, cell_w, cell_h, padding, do_autotrim) ==
    LET im == GroupedImage(fs, fbp[r + 1].paths[c + 1], do_autotrim)
    IN [pose |-> fbp[r + 1].pose, index |-> c + 1,
        x |-> c * (cell_w + padding), y |-> r * (cell_h + padding),
        w |-> cell_w, h |-> cell_h,
        im |-> [w |-> IF im.w > cell_w THEN cell_w ELSE im.w,
                h |-> IF im.h > cell_h THEN cell_h ELSE im.h]]

GroupedRaised(fs) ==
    [raised |-> TRUE, size |-> [w |-> 0, h |-> 0], cell |-> [w |-> 0, h |-> 0],
     cells |-> <<>>, fs |-> fs]

\* build_spritesheet_grouped on filesystem fs; frame_size is <<>> for None.
\* It raises for an empty mapping, for a first pose without frames and for
\* a frame that does not load, and then writes nothing
build_spritesheet_grouped(fs, fbp, out_dir, basename, frame_size, padding, do_autotrim) ==
    IF fbp = <<>> THEN GroupedRaised(fs)
    ELSE IF fbp[1].paths = <<>> THEN GroupedRaised(fs)
    ELSE IF frame_size = <<>> /\ ~LoadsRgba(fs, fbp[1].paths[1]) THEN GroupedRaised(fs)
    ELSE IF \E r \in 1..Len(fbp) : \E c \in 1..Len(fbp[r].paths) :
                ~LoadsRgba(fs, fbp[r].paths[c])
         THEN GroupedRaised(fs)
    ELSE
    LET cell_w == IF frame_size # <<>> THEN frame_size[1]
                  ELSE infer_frame_size(fs, fbp[1].paths, do_autotrim).w
        cell_h == IF frame_size # <<>> THEN frame_size[2]
                  ELSE infer_frame_size(fs, fbp[1].paths, do_autotrim).h
        rows == Len(fbp)
        cols == SetMax({Len(fbp[i].paths) : i \in 1..Len(fbp)})
        sheet_w == GroupedExtent(cols, cell_w, padding)
        sheet_h == GroupedExtent(rows, cell_h, padding)
        at == Flatten([r \in 1..Len(fbp) |->
                  [c \in 1..Len(fbp[r].paths) |-> <<r - 1, c - 1>>]])
    IN [raised |-> FALSE,
        size |-> [w |-> sheet_w, h |-> sheet_h],
        cell |-> [w |-> cell_w, h |-> cell_h],
        cells |-> [i \in 1..Len(at) |->
                     GroupedCell(fs, fbp, at[i][1], at[i][2], cell_w, cell_h,
                                 padding, do_autotrim)],
        fs |-> (SheetPathOf(out_dir, basename) :> SheetFile(sheet_w, sheet_h)) @@ fs]

---------------------------------------------------------------------------
(* Inputs of the normalizer check *)

MaxFrames == 3

StartIndices == {0, 1}

PadWidths == {1, 2}

X01 == <<"x", "_", "0", "1", ".", "p", "n", "g">>

X02 == <<"x", "_", "0", "2", ".", "p", "n", "g">>

FPNG == <<"f", ".", "p", "n", "g">>

ABC == <<"a", ".", "b", "-", "c">>

DX07 == <<"d", "\\", "x", "_", "0", "7", ".", "p", "n", "g">>

\* frame paths a caller may pass: numbered, unnumbered, with an extension
\* outside [A-Za-z0-9], in a directory and with a backslash separator
NormPaths == {X01, X02, FPNG, ABC, DX07}

FrameLists(n) == UNION {[1..m -> NormPaths] : m \in 0..n}

\* one pose, or two poses in mapping order, MaxFrames frames in all
NormInputs ==
    {<<[pose |-> WALK, paths |-> l]>> : l \in FrameLists(MaxFrames)}
    \cup
    {<<[pose |-> WALK, paths |-> l[1]], [pose |-> IDLE, paths |-> l[2]]>> :
        l \in {m \in FrameLists(MaxFrames) \X FrameLists(MaxFrames) :
                   Len(m[1]) + Len(m[2]) <= MaxFrames}}

\* the paths a PoseFrameSet names, slash-normalized
PathsOf(bp) ==
    UNION {{px(bp[i].paths[k]) : k \in 1..Len(bp[i].paths)} : i \in 1..Len(bp)}

\* the frame file at path p, as it is before any operation
FrameFile(p) == [id |-> p, w |-> 1, h |-> 1]

\* the filesystems the normalizer check starts from: every frame file of
\* the PoseFrameSet exists, or all but the first one
NormDisks(bp) ==
    {[p \in PathsOf(bp) |-> FrameFile(p)]}
    \cup
    (IF Len(bp[1].paths) = 0 THEN {}
     ELSE {[p \in PathsOf(bp) \ {px(bp[1].paths[1])} |-> FrameFile(p)]})

\* the entries of a plan for which the operating system may refuse the
\* rename: none, or the first one
RefusedSets(rm) == {{}} \cup (IF Len(rm) = 0 THEN {} ELSE {{1}})

---------------------------------------------------------------------------
(* The normalizer check: normalize_frame_numbers and apply_renames, twice  *)
(* in succession, as animate and poses_pipeline call them                  *)

NormInit ==
    /\ pc = "norm_start"
    /\ by_pose \in NormInputs
    /\ start_index \in StartIndices
    /\ pad \in PadWidths
    /\ disk \in NormDisks(by_pose)
    /\ disk0 = disk
    /\ norm_map = <<>>
    /\ rename_map = <<>>
    /\ norm_map2 = <<>>
    /\ rename_map2 = <<>>
    /\ refused = {}
    /\ sheet_req = NoSheetReq
    /\ sheet_out = NoSheetOut
    /\ NoPipe
    /\ NoGif
    /\ NoIo
    /\ NoJobs

Normalize ==
    /\ pc = "norm_start"
    /\ LET r == normalize_frame_numbers(by_pose, start_index, pad)
       IN /\ norm_map' = r.new_by_pose
          /\ rename_map' = r.rename_map
    /\ pc' = "normalized"
    /\ UNCHANGED gifVars
    /\ UNCHANGED jobVars
    /\ UNCHANGED ioVars
    /\ UNCHANGED <<by_pose, start_index, pad, disk, disk0, norm_map2, rename_map2,
                   refused, sheetVars, pipeVars>>

ApplyRenames ==
    /\ pc = "normalized"
    /\ \E fails \in RefusedSets(rename_map) :
          /\ disk' = apply_renames(disk, rename_map, fails)
          /\ refused' = fails
    /\ pc' = "renamed"
    /\ UNCHANGED gifVars
    /\ UNCHANGED jobVars
    /\ UNCHANGED ioVars
    /\ UNCHANGED <<by_pose, start_index, pad, disk0, norm_map, rename_map,
                   norm_map2, rename_map2, sheetVars, pipeVars>>

Renormalize ==
    /\ pc = "renamed"
    /\ LET r == normalize_frame_numbers(norm_map, start_index, pad)
       IN /\ norm_map2' = r.new_by_pose
          /\ rename_map2' = r.rename_map
    /\ pc' = "renormalized"
    /\ UNCHANGED gifVars
    /\ UNCHANGED jobVars
    /\ UNCHANGED ioVars
    /\ UNCHANGED <<by_pose, start_index, pad, disk, disk0, norm_map, rename_map,
                   refused, sheetVars, pipeVars>>

ReapplyRenames ==
    /\ pc = "renormalized"
    /\ \E fails \in RefusedSets(rename_map2) :
          /\ disk' = apply_renames(disk, rename_map2, fails)
          /\ refused' = fails
    /\ pc' = "norm_done"
    /\ UNCHANGED gifVars
    /\ UNCHANGED jobVars
    /\ UNCHANGED ioVars
    /\ UNCHANGED <<by_pose, start_index, pad, disk0, norm_map, rename_map,
                   norm_map2, rename_map2, sheetVars, pipeVars>>

NormNext == Normalize \/ ApplyRenames \/ Renormalize \/ ReapplyRenames

NormSpec == NormInit /\ [][NormNext]_vars

---------------------------------------------------------------------------
(* The sheet check: create_sprite_sheet on every bounded input *)

SA == <<"a", ".", "p", "n", "g">>

SB == <<"b", ".", "p", "n", "g">>

SBAD == <<"b", "a", "d", ".", "p", "n", "g">>

SGONE == <<"g", "o", "n", "e", ".", "p", "n", "g">>

SHEETPATH == <<"o", "/", "s", ".", "p", "n", "g">>

ATLASPATH == <<"o", "/", "s", ".", "j", "s", "o", "n">>

\* two frames of different sizes and a file that does not decode; the path
\* SGONE names no file
SheetDisk ==
    (SA :> [id |-> SA, w |-> 2, h |-> 3]) @@
    (SB :> [id |-> SB, w |-> 4, h |-> 2]) @@
    (SBAD :> [id |-> SBAD, w |-> 0, h |-> 0])

SheetPaths == {SA, SB, SBAD, SGONE}

SheetLists(n) == UNION {[1..m -> SheetPaths] : m \in 0..n}

\* one or two poses in mapping order, MaxFrames frames in all
SheetInputs ==
    {<<[pose |-> IDLE, paths |-> l]>> : l \in SheetLists(MaxFrames)}
    \cup
    {<<[pose |-> IDLE, paths |-> l[1]], [pose |-> ATTACK, paths |-> l[2]]>> :
        l \in {m \in SheetLists(MaxFrames) \X SheetLists(MaxFrames) :
                   Len(m[1]) + Len(m[2]) <= MaxFrames}}

\* requested columns (0 for none given) and the cell options: inferred,
\* fixed without a size, fixed larger and fixed smaller than the frames
SheetReqs ==
    {[sheet_cols |-> n, fixed_cell |-> m[1], cell_w |-> m[2], cell_h |-> m[3]] :
        n \in {0, 1, 2, 3},
        m \in {<<FALSE, 0, 0>>, <<TRUE, 0, 0>>, <<TRUE, 4, 4>>, <<TRUE, 2, 2>>}}

SheetInit ==
    /\ pc = "sheet_start"
    /\ by_pose \in SheetInputs
    /\ sheet_req \in SheetReqs
    /\ disk = SheetDisk
    /\ disk0 = disk
    /\ start_index = 1
    /\ pad = 2
    /\ norm_map = <<>>
    /\ rename_map = <<>>
    /\ norm_map2 = <<>>
    /\ rename_map2 = <<>>
    /\ refused = {}
    /\ sheet_out = NoSheetOut
    /\ NoPipe
    /\ NoGif
    /\ NoIo
    /\ NoJobs

BuildSheet ==
    /\ pc = "sheet_start"
    /\ LET r == create_sprite_sheet(disk, by_pose, SHEETPATH,
                    sheet_req.sheet_cols, sheet_req.fixed_cell,
                    sheet_req.cell_w, sheet_req.cell_h, ATLASPATH)
       IN /\ sheet_out' = [atlas |-> r.atlas, pastes |-> r.pastes,
                           written |-> r.written]
          /\ disk' = r.fs
    /\ pc' = "sheet_built"
    /\ UNCHANGED gifVars
    /\ UNCHANGED jobVars
    /\ UNCHANGED ioVars
    /\ UNCHANGED <<normVars, sheet_req, pipeVars>>

SheetNext == BuildSheet

SheetSpec == SheetInit /\ [][SheetNext]_vars

---------------------------------------------------------------------------
(* The GIF check: one call of create_gif *)

GIFPATH == <<"o", "/", "s", ".", "g", "i", "f">>

GIFHERE == <<"s", ".", "g", "i", "f">>

GifReqs ==
    {[frames |-> l, out_gif_path |-> o] :
        l \in SheetLists(MaxFrames), o \in {GIFPATH, GIFHERE}}

GifInit ==
    /\ pc = "gif_start"
    /\ gif_req \in GifReqs
    /\ gif_out = NoGifOut
    /\ disk = SheetDisk
    /\ disk0 = disk
    /\ by_pose = <<>>
    /\ start_index = 1
    /\ pad = 2
    /\ norm_map = <<>>
    /\ rename_map = <<>>
    /\ norm_map2 = <<>>
    /\ rename_map2 = <<>>
    /\ refused = {}
    /\ sheet_req = NoSheetReq
    /\ sheet_out = NoSheetOut
    /\ NoPipe
    /\ NoIo
    /\ NoJobs

\* create_gif(frames, out_gif_path); no statement of it raises for a frame
\* that is missing or does not decode
MakeGif ==
    /\ pc = "gif_start"
    /\ disk' = create_gif(disk, gif_req.frames, gif_req.out_gif_path)
    /\ gif_out' = [returned |-> TRUE,
                   made_dirs |-> GifDirs(disk, gif_req.frames,
                                         gif_req.out_gif_path)]
    /\ pc' = "gif_made"
    /\ UNCHANGED <<normVars, sheetVars, pipeVars, gif_req, ioVars, jobVars>>

GifNext == MakeGif

GifSpec == GifInit /\ [][GifNext]_vars

---------------------------------------------------------------------------
(* The padded builder check: one call of build_spritesheet_grouped *)

GROUPEDDIR == <<"o">>

\* the frames of SheetDisk with the bounding box of their non-transparent
\* pixels: SA has a transparent column, SB is transparent throughout
GroupedDisk ==
    (SA :> [id |-> SA, w |-> 2, h |-> 3, bbox |-> [w |-> 1, h |-> 3]]) @@
    (SB :> [id |-> SB, w |-> 4, h |-> 2, bbox |-> [w |-> 0, h |-> 0]]) @@
    (SBAD :> [id |-> SBAD, w |-> 0, h |-> 0, bbox |-> [w |-> 0, h |-> 0]])

\* frame_size (<<>> for None), padding and autotrim
GroupedReqs ==
    {[frame_size |-> fz, padding |-> pd, autotrim |-> tr] :
        fz \in {<<>>, <<3, 3>>}, pd \in {0, 1, 2}, tr \in BOOLEAN}

GroupedInit ==
    /\ pc = "grouped_start"
    /\ by_pose \in SheetInputs \cup {<<>>}
    /\ sheet_req \in GroupedReqs
    /\ disk = GroupedDisk
    /\ disk0 = disk
    /\ start_index = 1
    /\ pad = 2
    /\ norm_map = <<>>
    /\ rename_map = <<>>
    /\ norm_map2 = <<>>
    /\ rename_map2 = <<>>
    /\ refused = {}
    /\ sheet_out = NoSheetOut
    /\ NoPipe
    /\ NoGif
    /\ NoIo
    /\ NoJobs

\* _ensure_dir(out_dir), then the sheet is built and saved, or the call
\* raises
BuildSheetGrouped ==
    /\ pc = "grouped_start"
    /\ made_dirs' = made_dirs \cup {GROUPEDDIR}
    /\ LET r == build_spritesheet_grouped(disk, by_pose, GROUPEDDIR, <<"s">>,
                    sheet_req.frame_size, sheet_req.padding, sheet_req.autotrim)
       IN /\ sheet_out' = [raised |-> r.raised, size |-> r.size,
                           cell |-> r.cell, cells |-> r.cells]
          /\ disk' = r.fs
    /\ pc' = "grouped_built"
    /\ UNCHANGED gifVars
    /\ UNCHANGED jobVars
    /\ UNCHANGED ioVars
    /\ UNCHANGED <<normVars, sheet_req, req, run, resp, edit_calls, stages>>

GroupedNext == BuildSheetGrouped

GroupedSpec == GroupedInit /\ [][GroupedNext]_vars

---------------------------------------------------------------------------
(* The pipeline check: one poses_pipeline request, or one animate item *)

SRCIMG == <<"i", "n", "/", "k", ".", "p", "n", "g">>

SRCTXT == <<"i", "n", "/", "t", ".", "t", "x", "t">>

SRCGONE == <<"i", "n", "/", "m", ".", "p", "n", "g">>

ANIMF == <<"f", "/", "a", "_", "0", "1", ".", "p", "n", "g">>

ANIMGONE == <<"f", "/", "g", "_", "0", "1", ".", "p", "n", "g">>

JOBDIR == ASSETS_OUT \o <<"/", "j">>

OTHERDIR == <<"o", "u", "t">>

ABSDIR == <<"/", "t", "m", "p">>

\* a pose name with a backslash in it
BSPOSE == <<"a", "\\", "b">>

\* a source image, a source file that is no image, and a frame of an
\* earlier run; SRCGONE and ANIMGONE name no file
PipeDisk ==
    (SRCIMG :> [id |-> SRCIMG, w |-> 2, h |-> 3]) @@
    (SRCTXT :> [id |-> SRCTXT, w |-> 0, h |-> 0]) @@
    (ANIMF :> [id |-> ANIMF, w |-> 2, h |-> 3])

FrameCounts ==
    {[given |-> FALSE, frames |-> 0]} \cup
    {[given |-> TRUE, frames |-> n] : n \in {0, 1, 2}}

PoseSpecOf(name, c) == [name |-> name, given |-> c.given, frames |-> c.frames]

\* the pose lists of a request: none, one pose, two poses, one pose named
\* twice, and a pose whose name has a backslash in it
PoseRequests ==
    {<<>>}
    \cup {<<PoseSpecOf(IDLE, c)>> : c \in FrameCounts}
    \cup {<<PoseSpecOf(IDLE, c), PoseSpecOf(ATTACK, d)>> :
             c \in FrameCounts,
             d \in {[given |-> TRUE, frames |-> n] : n \in {0, 1}}}
    \cup {<<PoseSpecOf(IDLE, [given |-> TRUE, frames |-> 2]),
             PoseSpecOf(IDLE, [given |-> TRUE, frames |-> 1])>>}
    \cup {<<PoseSpecOf(BSPOSE, [given |-> TRUE, frames |-> 1])>>}

PosesRequests ==
    {[handler |-> "poses", image_path |-> im, poses |-> ps,
      use_nano |-> ed[1], instruction |-> ed[2], out_dir |-> od,
      basename |-> bn, sheet_cols |-> sh[1], fixed_cell |-> sh[2],
      cell_w |-> sh[3], cell_h |-> sh[4], pose_for_gif |-> pg,
      normalize_existing |-> ne] :
        im \in {SRCIMG, SRCTXT, SRCGONE},
        ps \in PoseRequests,
        ed \in {<<TRUE, <<>>>>, <<FALSE, <<>>>>, <<FALSE, <<"g", "o">>>>},
        od \in {<<>>, JOBDIR, OTHERDIR, ABSDIR},
        bn \in {<<>>, <<"h">>},
        sh \in {<<0, FALSE, 0, 0>>, <<2, TRUE, 4, 4>>},
        pg \in {<<>>, ATTACK, WALK},
        ne \in BOOLEAN}

AnimLists == UNION {[1..m -> {ANIMF, ANIMGONE}] : m \in 0..2}

\* an animate item gives by_pose (<<>> for none) or flat frames
AnimateRequests ==
    {[handler |-> "animate", frames |-> fr, by_pose |-> bp,
      pose_for_gif |-> pg, sheet_cols |-> sc, basename |-> <<"h">>,
      fixed_cell |-> FALSE, cell_w |-> 0, cell_h |-> 0,
      normalize_existing |-> ne] :
        fr \in AnimLists,
        bp \in {<<>>} \cup
               {<<[pose |-> IDLE, paths |-> l], [pose |-> ATTACK, paths |-> m]>> :
                    l \in AnimLists, m \in {<<>>, <<ANIMF>>}},
        pg \in {<<>>, ATTACK, WALK},
        sc \in {0, 1},
        ne \in BOOLEAN}

PipeInit ==
    /\ req \in PosesRequests \cup AnimateRequests
    /\ pc = IF req.handler = "poses" THEN "validate" ELSE "animate"
    /\ disk = PipeDisk
    /\ disk0 = disk
    /\ by_pose = <<>>
    /\ start_index = 1
    /\ pad = 2
    /\ norm_map = <<>>
    /\ rename_map = <<>>
    /\ norm_map2 = <<>>
    /\ rename_map2 = <<>>
    /\ refused = {}
    /\ sheet_req = NoSheetReq
    /\ sheet_out = NoSheetOut
    /\ run = NoRun
    /\ resp = NoResp
    /\ edit_calls = 0
    /\ made_dirs = {}
    /\ stages = <<>>
    /\ NoGif
    /\ NoIo
    /\ NoJobs

\* Abort that starts the run again from its first stage
Abort_Restart(code) ==
    /\ pc' = "validate"
    /\ resp' = [NoResp EXCEPT !.status = code]

\* raise HTTPException(status_code=...): the run ends in an error
Abort(code) ==
    /\ pc' = "done"
    /\ resp' = [NoResp EXCEPT !.status = code]

\* Validate, then resolve out_dir (created here) and base
PipeValidate ==
    /\ pc = "validate"
    /\ stages' = Append(stages, "validate")
    /\ IF ValidateOutcome(disk, req.image_path, req.poses) # "ok"
       THEN /\ Abort(400)
            /\ UNCHANGED <<run, made_dirs>>
       ELSE /\ pc' = "edit"
            /\ made_dirs' = made_dirs \cup {OutDir(req.out_dir)}
            /\ run' = [run EXCEPT
                          !.src = px(req.image_path),
                          !.src_image = px(req.image_path),
                          !.out_dir = OutDir(req.out_dir),
                          !.base = BaseName(req.basename, px(req.image_path)),
                          !.poses = EffectivePoses(req.poses)]
            /\ UNCHANGED resp
    /\ UNCHANGED gifVars
    /\ UNCHANGED jobVars
    /\ UNCHANGED ioVars
    /\ UNCHANGED <<disk, normVars, sheetVars, req, edit_calls>>

\* 1) Edit: apply_edit is called when use_nano or an instruction is given;
\* it returns or raises
PipeEdit ==
    /\ pc = "edit"
    /\ stages' = Append(stages, "edit")
    /\ \E outcome \in {"ok", "raises"} :
          LET runs == EditRuns(req.use_nano, req.instruction)
              e == EditStage(disk, run.src, runs, outcome)
          IN /\ disk' = e.fs
             /\ run' = [run EXCEPT !.src_image = e.src_image,
                                   !.edit_info = e.edit_info,
                                   !.edit_raised = runs /\ outcome = "raises"]
             /\ edit_calls' = edit_calls + EditAttempts(runs, outcome)
    /\ pc' = "materialize"
    /\ UNCHANGED gifVars
    /\ UNCHANGED jobVars
    /\ written' = IF disk' # disk
                  THEN WritesOf(written, "edited", {EditedPath(run.src)})
                  ELSE written
    /\ UNCHANGED read_back
    /\ UNCHANGED <<normVars, sheetVars, req, resp, made_dirs>>

\* 2) Poses: Image.open(src_image) raises for a file that is no image, and
\* the run ends in the 500 of the outer handler; else the frames are written
PipeMaterialize ==
    /\ pc = "materialize"
    /\ stages' = Append(stages, "materialize")
    /\ IF run.src_image \notin DOMAIN disk \/ disk[run.src_image].w = 0
       THEN /\ Abort(500)
            /\ UNCHANGED <<disk, by_pose, run>>
       ELSE /\ pc' = "normalize"
            /\ disk' = SaveFrames(disk, run.src_image,
                                  AllFramesAbs(run.poses, run.out_dir, run.base))
            /\ by_pose' = AsByPose(PoseFrameMap(<<>>, run.poses, 1,
                                                run.out_dir, run.base))
            /\ run' = [run EXCEPT !.all_frames =
                          AllFramesAbs(run.poses, run.out_dir, run.base)]
            /\ UNCHANGED resp
    /\ UNCHANGED gifVars
    /\ UNCHANGED jobVars
    /\ read_back' = read_back \cup ReadBack(written, {run.src_image})
    /\ written' = IF run.src_image \in DOMAIN disk /\ disk[run.src_image].w > 0
                  THEN WritesOf(written, "frame",
                           {AllFramesAbs(run.poses, run.out_dir, run.base)[k] :
                              k \in 1..Len(AllFramesAbs(run.poses, run.out_dir,
                                                        run.base))})
                  ELSE written
    /\ UNCHANGED <<start_index, pad, disk0, norm_map, rename_map, norm_map2,
                   rename_map2, refused, sheetVars, req, edit_calls, made_dirs>>

\* normalize_frame_numbers and apply_renames when normalize_existing; the
\* names the materialize stage wrote are canonical already, so the plan moves
\* none of the files the run wrote
PipeNormalize ==
    /\ pc = "normalize"
    /\ stages' = Append(stages, "normalize")
    /\ IF req.normalize_existing
       THEN LET r == normalize_frame_numbers(by_pose, 1, 2)
            IN /\ norm_map' = r.new_by_pose
               /\ rename_map' = r.rename_map
               /\ by_pose' = r.new_by_pose
               /\ \E fails \in RefusedSets(r.rename_map) :
                     /\ disk' = apply_renames(disk, r.rename_map, fails)
                     /\ refused' = fails
       ELSE UNCHANGED <<norm_map, rename_map, by_pose, disk, refused>>
    /\ pc' = "build_sheet"
    /\ UNCHANGED gifVars
    /\ UNCHANGED jobVars
    /\ UNCHANGED ioVars
    /\ UNCHANGED <<start_index, pad, disk0, norm_map2, rename_map2, sheetVars,
                   req, run, resp, edit_calls, made_dirs>>

\* Build standardized sheet (row-per-pose)
PipeBuildSheet ==
    /\ pc = "build_sheet"
    /\ stages' = Append(stages, "build_sheet")
    /\ LET use_fixed == UseFixed(req.fixed_cell, req.cell_w, req.cell_h)
           rq == [sheet_cols |-> IF req.sheet_cols # 0 THEN req.sheet_cols
                                 ELSE DefaultSheetCols,
                  fixed_cell |-> use_fixed,
                  cell_w |-> IF use_fixed THEN req.cell_w ELSE 0,
                  cell_h |-> IF use_fixed THEN req.cell_h ELSE 0]
           r == create_sprite_sheet(disk, by_pose,
                    SheetPathOf(run.out_dir, run.base), rq.sheet_cols,
                    rq.fixed_cell, rq.cell_w, rq.cell_h,
                    AtlasPathOf(run.out_dir, run.base))
       IN /\ sheet_req' = rq
          /\ sheet_out' = [atlas |-> r.atlas, pastes |-> r.pastes,
                           written |-> r.written]
          /\ disk' = r.fs
    /\ pc' = "select_gif"
    /\ UNCHANGED gifVars
    /\ UNCHANGED jobVars
    /\ read_back' = read_back \cup ReadBack(written, SheetReads(disk, by_pose))
    /\ written' = IF sheet_out'.written
                  THEN WritesOf(written, "sheet_or_atlas",
                                {SheetPathOf(run.out_dir, run.base),
                                 AtlasPathOf(run.out_dir, run.base)})
                  ELSE written
    /\ UNCHANGED <<normVars, req, run, resp, edit_calls, made_dirs>>

\* Choose which pose to animate (request override or first non-empty)
PipeSelectGifPose ==
    /\ pc = "select_gif"
    /\ stages' = Append(stages, "select_gif")
    /\ run' = [run EXCEPT !.gif_pose = PipeGifPose(req.pose_for_gif, by_pose)]
    /\ pc' = "build_gif"
    /\ UNCHANGED gifVars
    /\ UNCHANGED jobVars
    /\ UNCHANGED ioVars
    /\ UNCHANGED <<disk, normVars, sheetVars, req, resp, edit_calls, made_dirs>>

\* create_gif when the chosen pose has frames
PipeBuildGif ==
    /\ pc = "build_gif"
    /\ stages' = Append(stages, "build_gif")
    /\ disk' = IF FramesOfPose(by_pose, run.gif_pose) # <<>>
               THEN create_gif(disk, FramesOfPose(by_pose, run.gif_pose),
                               GifPathOf(run.out_dir, run.base))
               ELSE disk
    /\ pc' = "respond"
    /\ UNCHANGED gifVars
    /\ UNCHANGED jobVars
    /\ read_back' = read_back \cup
                       ReadBack(written,
                                LoadReads(disk, FramesOfPose(by_pose, run.gif_pose)))
    /\ written' = IF disk' # disk
                  THEN WritesOf(written, "gif", {GifPathOf(run.out_dir, run.base)})
                  ELSE written
    /\ UNCHANGED <<normVars, sheetVars, req, run, resp, edit_calls, made_dirs>>

\* the artifact paths the response is assembled from
ArtifactPaths ==
    {SheetPathOf(run.out_dir, run.base), AtlasPathOf(run.out_dir, run.base),
     GifPathOf(run.out_dir, run.base)}
    \cup PathsOf(by_pose)

\* Respond: relative paths and urls of the artifacts; a path rel or to_url
\* refuses ends the run in the 500 of the outer handler
PipeRespond ==
    /\ pc = "respond"
    /\ stages' = Append(stages, "respond")
    /\ pc' = "done"
    /\ resp' = IF RespondRaises(ArtifactPaths)
               THEN [NoResp EXCEPT !.status = 500]
               ELSE [status |-> 200,
                     frames |-> Flatten([i \in 1..Len(by_pose) |-> by_pose[i].paths]),
                     by_pose |-> by_pose,
                     sprite_sheet |-> SheetPathOf(run.out_dir, run.base),
                     gif |-> GifPathOf(run.out_dir, run.base),
                     atlas_path |-> AtlasPathOf(run.out_dir, run.base),
                     atlas |-> sheet_out.atlas,
                     gif_pose |-> run.gif_pose,
                     edit_info |-> run.edit_info]
    /\ UNCHANGED gifVars
    /\ UNCHANGED jobVars
    /\ UNCHANGED ioVars
    /\ UNCHANGED <<disk, normVars, sheetVars, req, run, edit_calls, made_dirs>>

\* item.sheet_cols or 4
DefaultAnimCols == 4

ALL == <<"a", "l", "l">>

\* by_pose of an animate item: item.by_pose when given, else the flat frames
\* wrapped into the single pose "all"
AnimByPose(item) ==
    IF item.by_pose # <<>>
    THEN [i \in 1..Len(item.by_pose) |->
             [pose |-> item.by_pose[i].pose,
              paths |-> [k \in 1..Len(item.by_pose[i].paths) |->
                            px(item.by_pose[i].paths[k])]]]
    ELSE <<[pose |-> ALL, paths |-> [k \in 1..Len(item.frames) |-> px(item.frames[k])]]>>

\* gif_pose = item.pose_for_gif or next((k for k, v in by_pose.items() if v),
\* None); <<>> is None
AnimGifPose(pose_for_gif, bp) ==
    IF pose_for_gif # <<>> THEN pose_for_gif
    ELSE IF WithFrames(bp) # {} THEN bp[SetMin(WithFrames(bp))].pose
    ELSE <<>>

\* animate, for one item: resolve by_pose, normalize, build the sheet, build
\* the GIF and append the result; no step of it raises
Animate ==
    /\ pc = "animate"
    /\ stages' = Append(stages, "animate")
    /\ made_dirs' = made_dirs \cup {ASSETS_OUT}
    /\ \E fails \in (IF req.normalize_existing
                     THEN RefusedSets(normalize_frame_numbers(AnimByPose(req), 1, 2).rename_map)
                     ELSE {{}}) :
        LET bp0 == AnimByPose(req)
            nrm == normalize_frame_numbers(bp0, 1, 2)
            bp == IF req.normalize_existing THEN nrm.new_by_pose ELSE bp0
            fs1 == IF req.normalize_existing
                   THEN apply_renames(disk, nrm.rename_map, fails) ELSE disk
            rq == [sheet_cols |-> IF req.sheet_cols # 0 THEN req.sheet_cols
                                  ELSE DefaultAnimCols,
                   fixed_cell |-> req.fixed_cell,
                   cell_w |-> req.cell_w, cell_h |-> req.cell_h]
            sh == create_sprite_sheet(fs1, bp,
                      SheetPathOf(ASSETS_OUT, req.basename), rq.sheet_cols,
                      rq.fixed_cell, rq.cell_w, rq.cell_h,
                      AtlasPathOf(ASSETS_OUT, req.basename))
            gif_pose == AnimGifPose(req.pose_for_gif, bp)
            gif_frames == FramesOfPose(bp, gif_pose)
            fs3 == IF gif_frames # <<>>
                   THEN create_gif(sh.fs, gif_frames,
                                   GifPathOf(ASSETS_OUT, req.basename))
                   ELSE sh.fs
            wr1 == IF sh.written
                   THEN WritesOf(written, "sheet_or_atlas",
                                 {SheetPathOf(ASSETS_OUT, req.basename),
                                  AtlasPathOf(ASSETS_OUT, req.basename)})
                   ELSE written
        IN /\ by_pose' = bp
           /\ written' = IF fs3 # sh.fs
                         THEN WritesOf(wr1, "gif",
                                       {GifPathOf(ASSETS_OUT, req.basename)})
                         ELSE wr1
           /\ read_back' = read_back
                              \cup ReadBack(written, SheetReads(fs1, bp))
                              \cup ReadBack(wr1, LoadReads(sh.fs, gif_frames))
           /\ norm_map' = IF req.normalize_existing THEN nrm.new_by_pose ELSE norm_map
           /\ rename_map' = IF req.normalize_existing THEN nrm.rename_map ELSE rename_map
           /\ refused' = fails
           /\ sheet_req' = rq
           /\ sheet_out' = [atlas |-> sh.atlas, pastes |-> sh.pastes,
                            written |-> sh.written]
           /\ disk' = fs3
           /\ run' = [run EXCEPT !.out_dir = ASSETS_OUT, !.base = req.basename,
                                 !.gif_pose = gif_pose]
           /\ resp' = [status |-> 200,
                       frames |-> Flatten([i \in 1..Len(bp) |-> bp[i].paths]),
                       by_pose |-> bp,
                       sprite_sheet |-> SheetPathOf(ASSETS_OUT, req.basename),
                       gif |-> GifPathOf(ASSETS_OUT, req.basename),
                       atlas_path |-> AtlasPathOf(ASSETS_OUT, req.basename),
                       atlas |-> sh.atlas,
                       gif_pose |-> gif_pose,
                       edit_info |-> NoEditInfo]
    /\ pc' = "done"
    /\ UNCHANGED gifVars
    /\ UNCHANGED jobVars
    /\ UNCHANGED <<start_index, pad, disk0, norm_map2, rename_map2, req,
                   edit_calls>>

PipeNext ==
    \/ PipeValidate
    \/ PipeEdit
    \/ PipeMaterialize
    \/ PipeNormalize
    \/ PipeBuildSheet
    \/ PipeSelectGifPose
    \/ PipeBuildGif
    \/ PipeRespond
    \/ Animate

PipeSpec == PipeInit /\ [][PipeNext]_vars

---------------------------------------------------------------------------
(* Two concurrent poses_pipeline runs into one output directory.  Each run *)
(* is a thread of the server: its stages interleave with the stages of the *)
(* other run, the filesystem is shared, the locals of a run are its own    *)

PX == <<"x">>

BX == <<"b", "_", "x">>

BASEA == <<"a">>

BASEAB == <<"a", "_", "b">>

JobIds == {1, 2}

\* the request of one run: out_dir is left to its default, no edit is asked
\* for (use_nano false, no instruction), one pose with one frame
JobRequests ==
    {[image_path |-> im,
      poses |-> <<PoseSpecOf(nm, [given |-> TRUE, frames |-> 1])>>,
      basename |-> bn, out_dir |-> <<>>, use_nano |-> FALSE,
      instruction |-> <<>>, sheet_cols |-> 0, pose_for_gif |-> <<>>,
      normalize_existing |-> ne] :
        im \in {SRCIMG, ANIMF}, nm \in {PX, BX}, bn \in {BASEA, BASEAB},
        ne \in BOOLEAN}

\* a run at entry: wrote and read are the paths it has written and opened
JobOf(rq) ==
    [pc |-> "validate", req |-> rq, src |-> <<>>, out_dir |-> <<>>,
     base |-> <<>>, poses |-> <<>>, src_image |-> <<>>, by_pose |-> <<>>,
     gif_pose |-> <<>>, status |-> 0, wrote |-> {}, read |-> {}]

JobsInit ==
    /\ pc = "jobs"
    /\ jobs \in {<<JobOf(q[1]), JobOf(q[2])>> :
                    q \in {p \in JobRequests \X JobRequests :
                              p[1].basename # p[2].basename}}
    /\ disk = PipeDisk
    /\ disk0 = disk
    /\ by_pose = <<>>
    /\ start_index = 1
    /\ pad = 2
    /\ norm_map = <<>>
    /\ rename_map = <<>>
    /\ norm_map2 = <<>>
    /\ rename_map2 = <<>>
    /\ refused = {}
    /\ sheet_req = NoSheetReq
    /\ sheet_out = NoSheetOut
    /\ NoPipe
    /\ NoGif
    /\ NoIo

\* what a step of a run leaves alone
JobFrame ==
    UNCHANGED <<pc, normVars, sheetVars, req, run, resp, edit_calls, stages,
                gifVars, ioVars>>

\* validation, out_dir and base, and the edit stage, which calls nothing
\* when no edit is asked for
JobValidate(j) ==
    /\ jobs[j].pc = "validate"
    /\ LET J == jobs[j]
           src == px(J.req.image_path)
       IN IF ValidateOutcome(disk, J.req.image_path, J.req.poses) # "ok"
          THEN /\ jobs' = [jobs EXCEPT ![j].pc = "done", ![j].status = 400]
               /\ UNCHANGED made_dirs
          ELSE /\ made_dirs' = made_dirs \cup {OutDir(J.req.out_dir)}
               /\ jobs' = [jobs EXCEPT
                     ![j].pc = "materialize",
                     ![j].src = src,
                     ![j].out_dir = OutDir(J.req.out_dir),
                     ![j].base = BaseName(J.req.basename, src),
                     ![j].poses = EffectivePoses(J.req.poses),
                     ![j].src_image =
                         EditStage(disk, src,
                                   EditRuns(J.req.use_nano, J.req.instruction),
                                   "ok").src_image]
    /\ UNCHANGED disk
    /\ JobFrame

\* 2) Poses: the frames are written
JobMaterialize(j) ==
    /\ jobs[j].pc = "materialize"
    /\ LET J == jobs[j]
           frames == AllFramesAbs(J.poses, J.out_dir, J.base)
       IN IF ~(J.src_image \in DOMAIN disk /\ disk[J.src_image].w > 0)
          THEN /\ jobs' = [jobs EXCEPT ![j].pc = "done", ![j].status = 500]
               /\ UNCHANGED disk
          ELSE /\ disk' = SaveFrames(disk, J.src_image, frames)
               /\ jobs' = [jobs EXCEPT
                     ![j].pc = "normalize",
                     ![j].by_pose = AsByPose(PoseFrameMap(<<>>, J.poses, 1,
                                                         J.out_dir, J.base)),
                     ![j].read = J.read \cup {J.src_image},
                     ![j].wrote = J.wrote \cup
                                     {frames[k] : k \in 1..Len(frames)}]
    /\ UNCHANGED made_dirs
    /\ JobFrame

\* normalize_frame_numbers and apply_renames when normalize_existing
JobNormalize(j) ==
    /\ jobs[j].pc = "normalize"
    /\ LET J == jobs[j]
           r == normalize_frame_numbers(J.by_pose, 1, 2)
       IN IF J.req.normalize_existing
          THEN \E fails \in RefusedSets(r.rename_map) :
                  /\ disk' = apply_renames(disk, r.rename_map, fails)
                  /\ jobs' = [jobs EXCEPT
                        ![j].pc = "build_sheet",
                        ![j].by_pose = r.new_by_pose,
                        ![j].wrote = J.wrote \cup
                            {r.rename_map[e][2] :
                                e \in {g \in 1..Len(r.rename_map) :
                                          /\ g \notin fails
                                          /\ r.rename_map[g][1] \in DOMAIN disk}}]
          ELSE /\ jobs' = [jobs EXCEPT ![j].pc = "build_sheet"]
               /\ UNCHANGED disk
    /\ UNCHANGED made_dirs
    /\ JobFrame

\* Build standardized sheet (row-per-pose)
JobBuildSheet(j) ==
    /\ jobs[j].pc = "build_sheet"
    /\ LET J == jobs[j]
           r == create_sprite_sheet(disk, J.by_pose,
                    SheetPathOf(J.out_dir, J.base),
                    IF J.req.sheet_cols # 0 THEN J.req.sheet_cols
                    ELSE DefaultSheetCols,
                    FALSE, 0, 0, AtlasPathOf(J.out_dir, J.base))
       IN /\ disk' = r.fs
          /\ jobs' = [jobs EXCEPT
                ![j].pc = "build_gif",
                ![j].read = J.read \cup SheetReads(disk, J.by_pose),
                ![j].wrote = J.wrote \cup
                    (IF r.written
                     THEN {SheetPathOf(J.out_dir, J.base),
                           AtlasPathOf(J.out_dir, J.base)}
                     ELSE {})]
    /\ UNCHANGED made_dirs
    /\ JobFrame

\* the pose to animate is chosen, and create_gif is called when it has frames
JobBuildGif(j) ==
    /\ jobs[j].pc = "build_gif"
    /\ LET J == jobs[j]
           gif_pose == PipeGifPose(J.req.pose_for_gif, J.by_pose)
           frames == FramesOfPose(J.by_pose, gif_pose)
       IN /\ disk' = IF frames # <<>>
                     THEN create_gif(disk, frames, GifPathOf(J.out_dir, J.base))
                     ELSE disk
          /\ jobs' = [jobs EXCEPT
                ![j].pc = "respond",
                ![j].gif_pose = gif_pose,
                ![j].read = J.read \cup LoadReads(disk, frames),
                ![j].wrote = J.wrote \cup
                    (IF load_images(disk, frames) # <<>>
                     THEN {GifPathOf(J.out_dir, J.base)}
                     ELSE {})]
    /\ UNCHANGED made_dirs
    /\ JobFrame

\* Respond: relative paths and urls of the artifacts
JobRespond(j) ==
    /\ jobs[j].pc = "respond"
    /\ LET J == jobs[j]
       IN jobs' = [jobs EXCEPT
             ![j].pc = "done",
             ![j].status =
                 IF RespondRaises({SheetPathOf(J.out_dir, J.base),
                                   AtlasPathOf(J.out_dir, J.base),
                                   GifPathOf(J.out_dir, J.base)}
                                  \cup PathsOf(J.by_pose))
                 THEN 500 ELSE 200]
    /\ UNCHANGED <<disk, made_dirs>>
    /\ JobFrame

JobsNext ==
    \E j \in JobIds :
        \/ JobValidate(j)
        \/ JobMaterialize(j)
        \/ JobNormalize(j)
        \/ JobBuildSheet(j)
        \/ JobBuildGif(j)
        \/ JobRespond(j)

JobsSpec == JobsInit /\ [][JobsNext]_vars

---------------------------------------------------------------------------
(* Properties of the normalizer and the rename applier (NormSpec) *)

\* C1: applying the plan of normalize_frame_numbers never loses a file:
\* every file that existed before apply_renames still exists, with its
\* content, under some path afterwards (stated here for the runs in which
\* the operating system refused no rename).
C1_NoFileLost ==
    (pc = "renamed" /\ refused = {}) =>
        \A p \in DOMAIN disk0 : \E q \in DOMAIN disk : disk[q].id = disk0[p].id

\* C2: rename idempotence: normalizing the normalized set again, after the
\* first plan was applied, returns it unchanged with an empty plan.
C2_RenameIdempotent ==
    pc = "renormalized" => (norm_map2 = norm_map /\ rename_map2 = <<>>)

RECURSIVE DecValue(_)
\* the number a run of decimal digits writes
DecValue(ds) ==
    IF ds = <<>> THEN 0
    ELSE 10 * DecValue(SubSeq(ds, 1, Len(ds) - 1)) + DigitVal(ds[Len(ds)])

RECURSIVE TrailingDigits(_)
\* length of the run of digits that ends s
TrailingDigits(s) ==
    IF s = <<>> \/ ~IsDigit(s[Len(s)]) THEN 0
    ELSE 1 + TrailingDigits(SubSeq(s, 1, Len(s) - 1))

\* the frame index a path carries: the number that ends its stem, -1 if none
FrameIndexOf(path) ==
    LET stem == PathStem(PathName(path))
        n == TrailingDigits(stem)
    IN IF n = 0 THEN -1 ELSE DecValue(Tail_(stem, Len(stem) - n + 1))

\* C3: the k-th frame (k = 0, 1, ...) of each pose gets index start + k,
\* counted per pose in list order, so the indices of a pose are the run
\* start .. start+n-1, and every output list is as long as its input list.
C3_ContiguousIndices ==
    pc # "norm_start" =>
        /\ Len(norm_map) = Len(by_pose)
        /\ \A i \in 1..Len(by_pose) :
              /\ norm_map[i].pose = by_pose[i].pose
              /\ Len(norm_map[i].paths) = Len(by_pose[i].paths)
              /\ \A k \in 1..Len(by_pose[i].paths) :
                    FrameIndexOf(norm_map[i].paths[k]) = start_index + (k - 1)
              /\ {FrameIndexOf(norm_map[i].paths[k]) : k \in 1..Len(norm_map[i].paths)}
                     = start_index..(start_index + Len(by_pose[i].paths) - 1)

\* two poses were normalized, the first with two frames, the second with one
C3_Witness ==
    /\ pc = "normalized"
    /\ Len(by_pose) = 2
    /\ Len(by_pose[1].paths) = 2
    /\ Len(by_pose[2].paths) = 1
    /\ norm_map[1].paths # by_pose[1].paths

---------------------------------------------------------------------------
(* Properties of the sheet compositor and the atlas (SheetSpec) *)

Readable(p) == p \in DOMAIN disk0 /\ disk0[p].w > 0

ReadableFrames ==
    {p \in PathsOf(by_pose) : Readable(p)}

\* the poses with a non-empty list
NonEmptyPoses == {i \in 1..Len(by_pose) : Len(by_pose[i].paths) > 0}

\* the poses with at least one readable frame
PlaceablePoses ==
    {i \in 1..Len(by_pose) :
        \E k \in 1..Len(by_pose[i].paths) : Readable(by_pose[i].paths[k])}

FixedSize ==
    sheet_req.fixed_cell /\ sheet_req.cell_w # 0 /\ sheet_req.cell_h # 0

ExpectedCellW ==
    IF FixedSize THEN sheet_req.cell_w
    ELSE SetMax({disk0[p].w : p \in ReadableFrames})

ExpectedCellH ==
    IF FixedSize THEN sheet_req.cell_h
    ELSE SetMax({disk0[p].h : p \in ReadableFrames})

ExpectedColumns == IF sheet_req.sheet_cols > 1 THEN sheet_req.sheet_cols ELSE 1

InCanvas(f, size) ==
    /\ 0 <= f.x /\ f.x + f.w <= size.w
    /\ 0 <= f.y /\ f.y + f.h <= size.h

Overlap(f, g) ==
    /\ f.x < g.x + g.w /\ g.x < f.x + f.w
    /\ f.y < g.y + g.h /\ g.y < f.y + f.h

\* C4: every atlas record's destination rect lies inside the sheet canvas
\* and overlaps no other record's destination rect.
C4_RectsInsideAndDisjoint ==
    pc = "sheet_built" =>
        LET fr == sheet_out.atlas.frames
        IN /\ \A i \in 1..Len(fr) :
                 InCanvas(fr[i].frame, sheet_out.atlas.meta.size)
           /\ \A i, j \in 1..Len(fr) :
                 i # j => ~Overlap(fr[i].frame, fr[j].frame)

\* the canvas is columns x cell wide and rows x cell high, and the atlas
\* meta block reports the same numbers
CanvasIs(rows) ==
    /\ sheet_out.written
    /\ SHEETPATH \in DOMAIN disk
    /\ disk[SHEETPATH].w = ExpectedColumns * ExpectedCellW
    /\ disk[SHEETPATH].h = rows * ExpectedCellH
    /\ sheet_out.atlas.meta.size =
           [w |-> ExpectedColumns * ExpectedCellW, h |-> rows * ExpectedCellH]
    /\ sheet_out.atlas.meta.columns = ExpectedColumns

RowOf(i) == Cardinality({j \in PlaceablePoses : j < i})

PoseIndex(name) == CHOOSE i \in 1..Len(by_pose) : by_pose[i].pose = name

\* C6: the frame at 1-based position i of a pose's list is composited in
\* the cell at column i - 1 of the pose's row.
C6_FrameAtListPosition ==
    pc = "sheet_built" =>
        \A n \in 1..Len(sheet_out.pastes) :
            LET q == sheet_out.pastes[n]
            IN /\ q.col = q.pos - 1
               /\ q.row = RowOf(PoseIndex(q.pose))

\* C7: every atlas record names the frame composited in its cell: the pose
\* whose frames fill the row, the frame's 1-based list position, and the
\* path of the file that was pasted.
C7_RecordIdentifiesFrame ==
    pc = "sheet_built" =>
        /\ Len(sheet_out.atlas.frames) = Len(sheet_out.pastes)
        /\ \A n \in 1..Len(sheet_out.pastes) :
              LET q == sheet_out.pastes[n]
                  f == sheet_out.atlas.frames[n]
              IN /\ f.pose = q.pose
                 /\ f.index = q.pos
                 /\ f.src = px(q.src)

---------------------------------------------------------------------------
(* Properties of the pipeline handlers (PipeSpec) *)

StageRan(name) == \E i \in 1..Len(stages) : stages[i] = name

Decodes(fs, p) == p \in DOMAIN fs /\ fs[p].w > 0

\* C8: edit soft-fail: when the edit stage of poses_pipeline ran and
\* apply_edit raised, for a source image that decodes, the finished run has
\* a populated edit_info.reason, worked from the original source image, ran
\* the frame, sheet and GIF stages and ended in a success response.
C8_EditSoftFail ==
    (pc = "done" /\ run.edit_raised /\ Decodes(disk0, run.src)) =>
        /\ run.edit_info.reason # ""
        /\ run.src_image = run.src
        /\ StageRan("materialize")
        /\ StageRan("build_sheet")
        /\ StageRan("build_gif")
        /\ \A q \in PathsOf(by_pose) :
              q \in DOMAIN disk /\ disk[q].id = disk0[run.src].id
        /\ resp.status = 200
        /\ resp.edit_info.reason # ""

\* the request names a pose with a provided frame count below 1, or a source
\* image that does not exist
RejectedRequest ==
    /\ req.handler = "poses"
    /\ \/ \E i \in 1..Len(req.poses) :
             req.poses[i].given /\ req.poses[i].frames < 1
       \/ px(req.image_path) \notin DOMAIN disk0

\* C9: validation precedes all file I/O: a poses_pipeline request with a
\* provided frame count below 1, or with a source image that does not exist,
\* ends in HTTP 400, and in that run no output directory is created,
\* apply_edit is not called and no file is written.
C9_ValidationBeforeIO ==
    RejectedRequest =>
        /\ pc \in {"validate", "done"}
        /\ made_dirs = {}
        /\ edit_calls = 0
        /\ disk = disk0
        /\ pc = "done" => resp.status = 400

\* a run ended in 400 for a request whose image exists, whose edit was asked
\* for, and whose second pose asks for 0 frames
C9_Witness ==
    /\ pc = "done"
    /\ resp.status = 400
    /\ req.handler = "poses"
    /\ px(req.image_path) \in DOMAIN disk0
    /\ req.use_nano
    /\ Len(req.poses) = 2
    /\ req.poses[2].given /\ req.poses[2].frames = 0
    /\ StageRan("validate")

\* no frame of the frame set handed to the sheet builder can be loaded
NoPlaceableFrame ==
    \A q \in PathsOf(by_pose) : ~Decodes(disk, q)

\* the sheet-build stage of the handler ran
SheetStageRan == StageRan("build_sheet") \/ StageRan("animate")

\* C10: when no frame is placeable on a sheet, the sheet-build stage is a
\* hard failure: the run does not end in a success response that returns
\* sheet and atlas paths.
C10_NoPlaceableFrameAborts ==
    (pc = "done" /\ SheetStageRan /\ NoPlaceableFrame) => resp.status # 200

---------------------------------------------------------------------------
(* Properties of the GIF assembler (GifSpec) *)

\* C11: create_gif called with an empty frame list, or with a list of
\* which no file is readable, is a no-op: no file is created at the output
\* path, no directory is created, and the call returns.
C11_GifNoOp ==
    (pc = "gif_made" /\
     \A k \in 1..Len(gif_req.frames) : ~Decodes(disk0, gif_req.frames[k])) =>
        /\ gif_req.out_gif_path \notin DOMAIN disk
        /\ disk = disk0
        /\ gif_out.made_dirs = {}
        /\ gif_out.returned

\* create_gif returned for a list of two frames, one missing and one that
\* does not decode
C11_Witness ==
    /\ pc = "gif_made"
    /\ gif_req.frames = <<SGONE, SBAD>>
    /\ gif_req.out_gif_path = GIFPATH
    /\ gif_out.returned

---------------------------------------------------------------------------
(* Properties of the GIF stages of the handlers (PipeSpec) *)

\* the GIF stage of the handler ran
GifStageRan == StageRan("build_gif") \/ StageRan("animate")

\* the run wrote the GIF
GifWritten == GifPathOf(run.out_dir, run.base) \in DOMAIN disk

\* the frame list of the pose the run chose, empty when it names no pose
ChosenFrames ==
    IF \E i \in 1..Len(by_pose) : by_pose[i].pose = run.gif_pose
    THEN by_pose[CHOOSE i \in 1..Len(by_pose) :
                     by_pose[i].pose = run.gif_pose].paths
    ELSE <<>>

\* the pose chosen is the override, else the first pose with frames
ChosenIsOverrideOrFirst ==
    IF req.pose_for_gif # <<>> THEN run.gif_pose = req.pose_for_gif
    ELSE \A i \in 1..Len(by_pose) :
            (Len(by_pose[i].paths) > 0 /\
             \A j \in 1..(i - 1) : Len(by_pose[j].paths) = 0)
                => run.gif_pose = by_pose[i].pose

\* when no pose has frames, no GIF is written and the run does not fail
NoFramesNoGif ==
    (\A i \in 1..Len(by_pose) : Len(by_pose[i].paths) = 0) =>
        (~GifWritten /\ (pc = "done" => resp.status = 200))

\* C12 as stated: the pose animated is the override when given, else the
\* first pose in mapping order with a non-empty list; a GIF is written
\* exactly when the chosen pose has at least one frame; with no frames in
\* any pose no GIF is written and the run does not fail.
C12_GifIffChosenHasFrames ==
    GifStageRan =>
        /\ ChosenIsOverrideOrFirst
        /\ GifWritten <=> (Len(ChosenFrames) > 0)
        /\ NoFramesNoGif

\* C12 amended: as above, but a GIF is written exactly when the chosen pose
\* has at least one frame whose file is readable.
C12_GifIffChosenHasReadableFrame ==
    GifStageRan =>
        /\ ChosenIsOverrideOrFirst
        /\ GifWritten <=>
              (\E k \in 1..Len(ChosenFrames) : Decodes(disk, ChosenFrames[k]))
        /\ NoFramesNoGif

\* no override was given, the first pose has no frames, the second was
\* chosen and its GIF written
C12_Witness ==
    /\ pc = "done"
    /\ GifStageRan
    /\ req.pose_for_gif = <<>>
    /\ Len(by_pose) = 2
    /\ by_pose[1].paths = <<>>
    /\ run.gif_pose = by_pose[2].pose
    /\ GifWritten

---------------------------------------------------------------------------
(* Properties of the RenamePlan and of apply_renames (NormSpec) *)

\* the positions (pose, place) of the frames of a PoseFrameSet
FramePositions(bp) ==
    UNION {{<<i, k>> : k \in 1..Len(bp[i].paths)} : i \in 1..Len(bp)}

HasEntry(rm, old, new) == \E e \in 1..Len(rm) : rm[e] = <<old, new>>

\* C13: the RenamePlan holds an entry old -> new for exactly the input
\* frames whose computed path differs from their slash-normalized path: no
\* entry is an identity, every entry is the renaming of an input frame, and
\* a frame has its entry if and only if its path changes.
C13_PlanIsExactlyTheChanges ==
    pc # "norm_start" =>
        /\ \A e \in 1..Len(rename_map) : rename_map[e][1] # rename_map[e][2]
        /\ \A e \in 1..Len(rename_map) :
              \E f \in FramePositions(by_pose) :
                  /\ rename_map[e][1] = px(by_pose[f[1]].paths[f[2]])
                  /\ rename_map[e][2] = norm_map[f[1]].paths[f[2]]
        /\ \A f \in FramePositions(by_pose) :
              LET old == px(by_pose[f[1]].paths[f[2]])
                  new == norm_map[f[1]].paths[f[2]]
              IN (new # old) <=> HasEntry(rename_map, old, new)

\* the entries of a plan do not touch each other's paths
IndependentEntries(rm) ==
    /\ \A e, g \in 1..Len(rm) : e # g => rm[e][2] # rm[g][2]
    /\ \A e, g \in 1..Len(rm) : rm[e][2] # rm[g][1]

\* path q is as it was before apply_renames
Untouched(q) ==
    /\ q \in DOMAIN disk <=> q \in DOMAIN disk0
    /\ q \in DOMAIN disk => disk[q] = disk0[q]

\* C14: apply_renames is best-effort per entry: an entry whose source does
\* not exist is skipped and creates nothing, an entry whose rename is refused
\* leaves both paths as they were, and every other entry of the plan is
\* carried out whatever happened to the entries before it (stated for plans
\* whose entries do not touch each other's paths).
C14_BestEffortPerEntry ==
    (pc = "renamed" /\ IndependentEntries(rename_map)) =>
        /\ \A e \in 1..Len(rename_map) :
              LET old == rename_map[e][1]
                  new == rename_map[e][2]
              IN IF old \notin DOMAIN disk0
                 THEN Untouched(old) /\ Untouched(new)
                 ELSE IF e \in refused
                 THEN Untouched(old) /\ Untouched(new)
                 ELSE /\ old \notin DOMAIN disk
                      /\ new \in DOMAIN disk
                      /\ disk[new] = disk0[old]
        /\ \A q \in (DOMAIN disk \cup DOMAIN disk0) :
              (\A e \in 1..Len(rename_map) :
                   q # rename_map[e][1] /\ q # rename_map[e][2])
                  => Untouched(q)

\* a plan of two entries was applied: the first rename was refused, the
\* second was carried out
C14_Witness ==
    /\ pc = "renamed"
    /\ IndependentEntries(rename_map)
    /\ Len(rename_map) = 2
    /\ refused = {1}
    /\ rename_map[1][1] \in DOMAIN disk0
    /\ rename_map[2][1] \in DOMAIN disk0
    /\ rename_map[2][2] \in DOMAIN disk
    /\ rename_map[2][1] \notin DOMAIN disk

---------------------------------------------------------------------------
(* Properties of the runs of the handlers (PipeSpec) *)

\* C15: no partial artifact is rolled back: when the sheet build wrote the
\* sheet and the GIF build was skipped because the chosen pose has no
\* frames, the sheet and atlas files are in place at the end of the run and
\* the run returns a success response that carries the sheet and the atlas.
C15_SheetKeptWhenGifSkipped ==
    (pc = "done" /\ GifStageRan /\ sheet_out.written /\ ChosenFrames = <<>>) =>
        /\ SheetPathOf(run.out_dir, run.base) \in DOMAIN disk
        /\ AtlasPathOf(run.out_dir, run.base) \in DOMAIN disk
        /\ ~GifWritten
        /\ resp.status = 200
        /\ resp.sprite_sheet = SheetPathOf(run.out_dir, run.base)
        /\ resp.atlas_path = AtlasPathOf(run.out_dir, run.base)
        /\ resp.atlas = sheet_out.atlas
        /\ ~resp.atlas.empty

\* the request asks for the edit
EditRequested ==
    req.handler = "poses" /\ (req.use_nano \/ req.instruction # <<>>)

\* C16: apply_edit is never retried: in a poses_pipeline run whose edit
\* stage runs it is called exactly once, whether the call returns or
\* raises, and the number of calls never changes once the materialize stage
\* has started.
C16_EditCalledOnce ==
    /\ [](/\ edit_calls <= 1
          /\ (EditRequested /\ StageRan("edit")) => edit_calls = 1
          /\ ~StageRan("edit") => edit_calls = 0)
    /\ [][StageRan("materialize") => edit_calls' = edit_calls]_vars

\* a run whose one call of apply_edit raised went on to its response
C16_Witness ==
    /\ pc = "done"
    /\ EditRequested
    /\ run.edit_raised
    /\ edit_calls = 1
    /\ StageRan("respond")

\* the stages of poses_pipeline in the order of the handler's text
StageOrder ==
    <<"validate", "edit", "materialize", "normalize", "build_sheet",
      "select_gif", "build_gif", "respond">>

\* C17: a poses_pipeline run is a single pass through Validate, Edit,
\* Materialize, Normalize, Build sheet, Select GIF pose, Build GIF, Respond:
\* the stages entered so far are always an initial part of that order (so
\* each is entered at most once and none before the earlier ones), a run
\* under way is at the stage that follows them, a run that ended has ended
\* in a response or in an error, and nothing follows the end of the run.
C17_SinglePass ==
    /\ [](req.handler = "poses" =>
            /\ Len(stages) <= Len(StageOrder)
            /\ stages = SubSeq(StageOrder, 1, Len(stages))
            /\ pc # "done" =>
                  (resp.status = 0 /\ Len(stages) < Len(StageOrder)
                   /\ pc = StageOrder[Len(stages) + 1])
            /\ pc = "done" =>
                  (resp.status \in {200, 400, 500} /\ Len(stages) >= 1
                   /\ (resp.status = 200 => stages = StageOrder)))
    /\ [][pc # "done"]_vars

\* a run that went through all eight stages and ended in a response
C17_Witness ==
    /\ req.handler = "poses"
    /\ pc = "done"
    /\ stages = StageOrder
    /\ resp.status = 200

---------------------------------------------------------------------------
(* Properties of the sheet build around unreadable frames (SheetSpec) *)

\* the readable frames of the pose at position i, in list order
ReadableOf(i) == SelectSeq(by_pose[i].paths, Readable)

\* C18: unreadable or missing frame files are soft failures of the sheet
\* build: the call returns, a sheet is written exactly when some frame is
\* readable, every pose with a readable frame contributes one row made of
\* its readable frames in list order, and a pose with no readable frame
\* contributes no row, so the rows are as many as the poses with a readable
\* frame.
C18_RowsFromReadableFrames ==
    pc = "sheet_built" =>
        /\ sheet_out.written <=> (PlaceablePoses # {})
        /\ {sheet_out.pastes[n].row : n \in 1..Len(sheet_out.pastes)}
               = 0..(Cardinality(PlaceablePoses) - 1)
        /\ \A i \in PlaceablePoses :
              \A c \in 1..Len(ReadableOf(i)) :
                  \E n \in 1..Len(sheet_out.pastes) :
                      /\ sheet_out.pastes[n].row = RowOf(i)
                      /\ sheet_out.pastes[n].col = c - 1
                      /\ sheet_out.pastes[n].src = ReadableOf(i)[c]
        /\ \A n \in 1..Len(sheet_out.pastes) :
              LET q == sheet_out.pastes[n]
              IN /\ Readable(q.src)
                 /\ \E i \in PlaceablePoses :
                       /\ q.row = RowOf(i)
                       /\ q.col < Len(ReadableOf(i))
                       /\ q.src = ReadableOf(i)[q.col + 1]
        /\ \A n, m \in 1..Len(sheet_out.pastes) :
              (sheet_out.pastes[n].row = sheet_out.pastes[m].row /\
               sheet_out.pastes[n].col = sheet_out.pastes[m].col) => n = m

\* a sheet was built from two poses: no frame of the first is readable, and
\* the second has a missing frame before a readable one
C18_Witness ==
    /\ pc = "sheet_built"
    /\ sheet_out.written
    /\ Len(by_pose) = 2
    /\ by_pose[1].paths = <<SBAD>>
    /\ by_pose[2].paths = <<SGONE, SA>>
    /\ Len(sheet_out.pastes) = 1

\* C19: every frame is composited entirely inside its own cell: for every
\* atlas record, spriteSourceSize starts at or after the cell's corner and
\* ends at or before the cell's far edges.
C19_FrameInsideCell ==
    pc = "sheet_built" =>
        \A n \in 1..Len(sheet_out.atlas.frames) :
            LET ss == sheet_out.atlas.frames[n].spriteSourceSize
                cell == sheet_out.atlas.meta.cell
            IN /\ 0 <= ss.x
               /\ 0 <= ss.y
               /\ ss.x + ss.w <= cell.w
               /\ ss.y + ss.h <= cell.h

---------------------------------------------------------------------------
(* Properties of the files a poses_pipeline run writes (PipeSpec) *)

\* no file that was there, and no file the run wrote, has gone
NothingRemoved ==
    /\ DOMAIN disk0 \subseteq DOMAIN disk
    /\ DOMAIN written \subseteq DOMAIN disk

\* C20 as stated: within a poses_pipeline run the directory tree is
\* write-only: the run only creates or overwrites files, and no frame,
\* sheet, atlas or GIF file the run wrote is read back by a later stage.
C20_NothingReadBack ==
    req.handler = "poses" =>
        /\ NothingRemoved
        /\ \A e \in read_back : e.kind \notin {"frame", "sheet_or_atlas", "gif"}

\* C20 amended: the run only creates or overwrites files, and no sheet,
\* atlas or GIF file the run wrote is read back by a later stage (the frame
\* files the materialize stage wrote are read back by the sheet and GIF
\* stages).
C20_OnlyFramesReadBack ==
    req.handler = "poses" =>
        /\ NothingRemoved
        /\ \A e \in read_back : e.kind \notin {"sheet_or_atlas", "gif"}
        /\ StageRan("build_gif") =>
              \A q \in {SheetPathOf(run.out_dir, run.base),
                        AtlasPathOf(run.out_dir, run.base),
                        GifPathOf(run.out_dir, run.base)} :
                  \A e \in read_back : e.path # q

\* a run wrote frames, sheet, atlas and GIF, and its sheet and GIF stages
\* read the frames back
C20_Witness ==
    /\ req.handler = "poses"
    /\ pc = "done"
    /\ resp.status = 200
    /\ sheet_out.written
    /\ GifWritten
    /\ \E e \in read_back : e.kind = "frame"
    /\ Cardinality(DOMAIN written) >= 4

---------------------------------------------------------------------------
(* The respond stage (PipeSpec) *)

\* C23: the respond stage has no failure outcome: every poses_pipeline run
\* that passed validation and completed the sheet and GIF stages, whatever
\* out_dir it was given, ends in a success response and never in an error
\* raised after the artifacts were written.
C23_RespondNeverFails ==
    (req.handler = "poses" /\ pc = "done" /\ StageRan("build_sheet")
        /\ StageRan("build_gif")) => resp.status = 200

---------------------------------------------------------------------------
(* Frame materialization (PipeSpec) *)

\* the frame count a pose spec asks for: its count, 4 when it gives none
RequestedCount(spec) == IF spec.given THEN spec.frames ELSE DefaultFrames

\* <basename>_<pose>_01 .. <basename>_<pose>_N in out_dir
RequestedFrames(spec) ==
    [k \in 1..RequestedCount(spec) |->
        FramePath(run.out_dir, run.base, spec.name, k)]

RECURSIVE SumCounts(_)
SumCounts(poses) ==
    IF poses = <<>> THEN 0 ELSE RequestedCount(Head(poses)) + SumCounts(Tail(poses))

\* C22: frame materialization writes, for every requested pose spec with
\* frame count N (4 when no count is given), exactly the N frame files
\* <basename>_<pose>_01 .. <basename>_<pose>_N; the by_pose entry of the
\* response for that pose lists exactly these N paths in increasing index
\* order, and the flat frames list of the response has as many entries as
\* the sum of the requested counts.
C22_FramesAsRequested ==
    (req.handler = "poses" /\ pc = "done" /\ resp.status = 200) =>
        /\ {q \in DOMAIN written : written[q] = "frame"} =
              UNION {{RequestedFrames(run.poses[i])[k] :
                         k \in 1..RequestedCount(run.poses[i])} :
                     i \in 1..Len(run.poses)}
        /\ \A i \in 1..Len(run.poses) :
              FramesOfPose(resp.by_pose, run.poses[i].name) =
                  RequestedFrames(run.poses[i])
        /\ Len(resp.frames) = SumCounts(run.poses)

---------------------------------------------------------------------------
(* The normalize stage of the pipeline (PipeSpec) *)

\* pose_frame_map as the materialize stage leaves it
MaterializedMap ==
    AsByPose(PoseFrameMap(<<>>, run.poses, 1, run.out_dir, run.base))

\* C27: in poses_pipeline the normalize stage is a no-op on the frames just
\* materialized: for every basename, pose name and frame count the plan of
\* normalize_frame_numbers(start_index=1, pad=2) is empty and the returned
\* frame set equals the materialized one, so no file is renamed.
C27_NormalizeIsNoOp ==
    (req.handler = "poses" /\ StageRan("normalize") /\ req.normalize_existing) =>
        /\ rename_map = <<>>
        /\ norm_map = MaterializedMap
        /\ by_pose = MaterializedMap
        /\ \A q \in PathsOf(MaterializedMap) :
              q \in DOMAIN disk /\ written[q] = "frame" => disk[q].id = disk[run.src_image].id

---------------------------------------------------------------------------
(* The artifact paths of a response (PipeSpec) *)

\* C26: in every successful poses_pipeline or animate response each artifact
\* path it reports (sprite_sheet, atlas_path, gif and every frame path)
\* names a file that exists on disk when the response is returned: a gif
\* path is reported only when a GIF was written, a sheet path only when a
\* sheet was written.
C26_ReportedPathsExist ==
    (pc = "done" /\ resp.status = 200) =>
        /\ resp.sprite_sheet \in DOMAIN disk
        /\ resp.atlas_path \in DOMAIN disk
        /\ resp.gif \in DOMAIN disk
        /\ \A k \in 1..Len(resp.frames) : resp.frames[k] \in DOMAIN disk

---------------------------------------------------------------------------
(* Injectivity of the normalizer and content of the renamed set (NormSpec) *)

\* the paths of a PoseFrameSet are pairwise distinct, within and across poses
DistinctPaths(bp) ==
    \A f, g \in FramePositions(bp) :
        f # g => bp[f[1]].paths[f[2]] # bp[g[1]].paths[g[2]]

\* C25: normalize_frame_numbers is injective on paths: when the input paths
\* are pairwise distinct (within and across poses) the output paths are
\* pairwise distinct, and no two entries of the RenamePlan share a
\* destination.
C25_NormalizeInjective ==
    (pc # "norm_start" /\ DistinctPaths(by_pose)) =>
        /\ DistinctPaths(norm_map)
        /\ \A e, g \in 1..Len(rename_map) :
              e # g => rename_map[e][2] # rename_map[g][2]

\* C24: after normalize_frame_numbers and apply_renames on a PoseFrameSet
\* whose paths are pairwise distinct existing files, every path of the
\* returned PoseFrameSet exists on disk and holds the content that was at
\* the corresponding input path (same pose, same list position) before the
\* call (stated for the runs in which the operating system refused no
\* rename).
C24_RenamedSetHoldsContent ==
    (/\ pc = "renamed"
     /\ refused = {}
     /\ DistinctPaths(by_pose)
     /\ PathsOf(by_pose) \subseteq DOMAIN disk0) =>
        \A f \in FramePositions(by_pose) :
            LET old == px(by_pose[f[1]].paths[f[2]])
                new == norm_map[f[1]].paths[f[2]]
            IN /\ new \in DOMAIN disk
               /\ disk[new] = disk0[old]

---------------------------------------------------------------------------
(* Properties of the padded builder (GroupedSpec) *)

\* the largest frame count of any pose
LargestCount == SetMax({Len(by_pose[i].paths) : i \in 1..Len(by_pose)})

\* C28: whenever build_spritesheet_grouped builds a sheet, for padding >= 0,
\* the canvas is cols x cell width + (cols - 1) x padding wide and rows x
\* cell height + (rows - 1) x padding high, with cols the largest frame
\* count of any pose and rows the number of poses of the set; every frame
\* has its cell rect at (c x (cell width + padding), r x (cell height +
\* padding)), and every cell rect lies fully inside the canvas and overlaps
\* no other cell.
C28_PaddedCellsInsideAndDisjoint ==
    (pc = "grouped_built" /\ ~sheet_out.raised) =>
        LET cw == sheet_out.cell.w
            ch == sheet_out.cell.h
            pd == sheet_req.padding
            cs == sheet_out.cells
        IN /\ sheet_out.size.w = LargestCount * cw + (LargestCount - 1) * pd
           /\ sheet_out.size.h = Len(by_pose) * ch + (Len(by_pose) - 1) * pd
           /\ disk[SheetPathOf(GROUPEDDIR, <<"s">>)].w = sheet_out.size.w
           /\ disk[SheetPathOf(GROUPEDDIR, <<"s">>)].h = sheet_out.size.h
           /\ Len(cs) = Cardinality(FramePositions(by_pose))
           /\ \A f \in FramePositions(by_pose) :
                 \E i \in 1..Len(cs) :
                     /\ cs[i].pose = by_pose[f[1]].pose
                     /\ cs[i].index = f[2]
                     /\ cs[i].x = (f[2] - 1) * (cw + pd)
                     /\ cs[i].y = (f[1] - 1) * (ch + pd)
                     /\ cs[i].w = cw /\ cs[i].h = ch
           /\ \A i \in 1..Len(cs) : InCanvas(cs[i], sheet_out.size)
           /\ \A i, j \in 1..Len(cs) : i # j => ~Overlap(cs[i], cs[j])

\* a sheet of two rows was built with padding between the cells, the first
\* row with two frames
C28_Witness ==
    /\ pc = "grouped_built"
    /\ ~sheet_out.raised
    /\ sheet_req.padding > 0
    /\ Len(by_pose) = 2
    /\ Len(by_pose[1].paths) = 2
    /\ Len(by_pose[2].paths) = 1
    /\ Len(sheet_out.cells) = 3

---------------------------------------------------------------------------
(* Concurrent runs with distinct basenames (JobsSpec) *)

\* C21: two concurrent poses_pipeline runs that write into the same output
\* directory with distinct basenames are independent: in every interleaving
\* the sets of frame, sheet, atlas and GIF paths the two runs wrote are
\* disjoint, and neither run reads a path the other wrote.
C21_DistinctBasenamesIndependent ==
    pc = "jobs" =>
        /\ jobs[1].wrote \cap jobs[2].wrote = {}
        /\ jobs[1].read \cap jobs[2].wrote = {}
        /\ jobs[2].read \cap jobs[1].wrote = {}

====
